---------------------------- MODULE Spec2Model ----------------------------
(***************************************************************************)
(* Pose-deformation and animation engine of Bitruvius: the keyframe        *)
(* timeline (Timeline component), the playback scheduler                   *)
(* (useAnimationEngine), the undo/redo history and the drag / pose         *)
(* transition machinery of App.                                            *)
(*                                                                         *)
(* Times are integer milliseconds, angles integer degrees.  Array indices  *)
(* keep the source's 0-based numbering (keyframes[i] of the source is      *)
(* keyframes[i + 1] here).  Snapshot timestamps (Date.now()) and keyframe  *)
(* ids are not part of the state.                                          *)
(***************************************************************************)
EXTENDS Integers, Sequences, FiniteSets, TLC

(***************************************************************************)
(* Program constants                                                       *)
(***************************************************************************)
MIN_SEGMENT_DURATION == 100
LOOP_DURATION == 1000
KEYFRAME_SPACING == 1000
SCRUB_LOOP_DURATION == 1000
HISTORY_KEEP == 49
LOG_KEEP == 99
CALIBRATION_DURATION == 500
JITTER_FRAMES == 2

(***************************************************************************)
(* Bounds of the model                                                     *)
(***************************************************************************)
MaxKeyframes == 3
MaxUndoDepth == 2
MaxTimelineKeyframes == 4
MaxDragAngle == 10
MaxGhostEdits == 3
MaxLogOps == 3

NoIndex == -1
NullPose == <<>>

JOINT_KEYS ==
    {"waist", "neck", "collar", "torso", "l_shoulder", "r_shoulder",
     "l_elbow", "r_elbow", "l_hand", "r_hand", "l_hip", "r_hip",
     "l_knee", "r_knee", "l_foot", "r_foot", "l_toe", "r_toe"}

T_POSE == [k \in JOINT_KEYS |-> 0]

INITIAL_CHALLENGE_POSE ==
    [k \in JOINT_KEYS |->
        CASE k \in {"waist", "torso", "neck"} -> 180
          [] k = "collar" -> 0
          [] k = "l_shoulder" -> -95
          [] k = "r_shoulder" -> 95
          [] k = "l_hip" -> 5
          [] k = "r_hip" -> -5
          [] OTHER -> 180]

PROP_KEYS ==
    {"head", "collar", "torso", "waist",
     "l_upper_arm", "l_lower_arm", "l_hand",
     "r_upper_arm", "r_lower_arm", "r_hand",
     "l_upper_leg", "l_lower_leg", "l_foot", "l_toe",
     "r_upper_leg", "r_lower_leg", "r_foot", "r_toe"}

\* Scale factors are kept in hundredths: { w: 1, h: 1 } is [w |-> 100, h |-> 100].
ATOMIC_PROPS == [k \in PROP_KEYS |-> [w |-> 100, h |-> 100]]

JOINT_CHILD_MAP ==
    [k \in {"waist", "torso", "collar", "l_shoulder", "l_elbow", "r_shoulder",
            "r_elbow", "l_hip", "l_knee", "l_foot", "r_hip", "r_knee", "r_foot"} |->
        CASE k = "waist" -> "torso"
          [] k = "torso" -> "collar"
          [] k = "collar" -> "neck"
          [] k = "l_shoulder" -> "l_elbow"
          [] k = "l_elbow" -> "l_hand"
          [] k = "r_shoulder" -> "r_elbow"
          [] k = "r_elbow" -> "r_hand"
          [] k = "l_hip" -> "l_knee"
          [] k = "l_knee" -> "l_foot"
          [] k = "l_foot" -> "l_toe"
          [] k = "r_hip" -> "r_knee"
          [] k = "r_knee" -> "r_foot"
          [] k = "r_foot" -> "r_toe"]

\* Object.fromEntries(Object.entries(JOINT_CHILD_MAP).map(([parent, child]) =>
\* [child, parent])): the entries of JOINT_CHILD_MAP reversed.
JOINT_PARENT_MAP ==
    [child \in {JOINT_CHILD_MAP[p] : p \in DOMAIN JOINT_CHILD_MAP} |->
        CHOOSE parent \in DOMAIN JOINT_CHILD_MAP : JOINT_CHILD_MAP[parent] = child]

(***************************************************************************)
(* Arithmetic helpers                                                      *)
(***************************************************************************)
Max(a, b) == IF a >= b THEN a ELSE b
Min(a, b) == IF a <= b THEN a ELSE b

\* The remainder operator % of the source language: the result takes the
\* sign of the dividend.
JsRem(a, b) == IF a >= 0 THEN a % b ELSE 0 - ((0 - a) % b)

RECURSIVE GCD(_, _)
GCD(a, b) == IF b = 0 THEN a ELSE GCD(b, a % b)

\* Division truncated to a whole number of degrees (toward minus infinity).
\* The source computes in floating point; the inputs of the model are
\* chosen so that the quotients that matter are whole.
Scale(x, num, den) == (x * num) \div den

\* utils/kinematics.lerpAngleShortestPath: the signed difference is wrapped
\* into [-180, 180) before scaling.
ShortestDiff(a, b) == ((b - a + 180) % 360) - 180
lerpAngleShortestPath(a, b, num, den) == a + Scale(ShortestDiff(a, b), num, den)

\* utils/kinematics.linear, on a progress num/den: the numerator of the
\* eased progress over the same denominator.
linear(num, den) == num

\* easeOutExpo(t) = (t === 1) ? 1 : 1 - 2^(-10 t), on the progress values
\* the model uses: 0, 1/2 and 1, as a fraction over 32.
easeOutExpo(num, den) ==
    IF num >= den THEN 32
    ELSE IF num = 0 THEN 0
    ELSE 31


(***************************************************************************)
(* Timeline: pure parts                                                    *)
(***************************************************************************)
Keyframe(pose, time) == [pose |-> pose, time |-> time]

\* useAnimationEngine.totalDuration
totalDuration(kfs) ==
    IF Len(kfs) < 2 THEN 0 ELSE kfs[Len(kfs)].time + LOOP_DURATION

\* Variant: segment search without the test against the next keyframe's time.
FindSegment_noUpperBound(kfs, t) ==
    LET hits == {i \in 1..(Len(kfs) - 1) : t >= kfs[i].time}
    IN  IF hits = {} THEN 0 ELSE CHOOSE i \in hits : \A j \in hits : i <= j

\* The segment search shared by runAnimationLoop and handleScrub: the
\* 1-based position of the first keyframe i with
\* kfs[i].time <= t < kfs[i+1].time, or 0 when no segment matches.
FindSegment(kfs, t) ==
    LET hits == {i \in 1..(Len(kfs) - 1) : t >= kfs[i].time /\ t < kfs[i + 1].time}
    IN  IF hits = {} THEN 0 ELSE CHOOSE i \in hits : \A j \in hits : i <= j

\* Variant: every joint interpolated on the plain difference end - start.
InterpolatePose_plainDifference(startPose, endPose, num, den) ==
    [k \in JOINT_KEYS |-> startPose[k] + Scale(endPose[k] - startPose[k], num, den)]

\* JOINT_KEYS.forEach(k => nextPose[k] = lerpAngleShortestPath(start[k], end[k], p))
InterpolatePose(startPose, endPose, num, den) ==
    [k \in JOINT_KEYS |-> lerpAngleShortestPath(startPose[k], endPose[k], num, den)]

\* startKeyframe.easing || 'linear': a keyframe carries an easing field only
\* when one was set.
EasingOf(kf) == IF "easing" \in DOMAIN kf THEN kf.easing ELSE "linear"

\* utils/kinematics.easeOutCubic(t) = 1 - (1 - t)^3 on a progress num/den:
\* the numerator of the eased progress over den^3.
easeOutCubic(num, den) == (den * den * den) - ((den - num) * (den - num) * (den - num))

\* utils/kinematics.easeInOutCubic(t) = t < 0.5 ? 4 t^3 : 1 - (-2 t + 2)^3 / 2
\* on a progress num/den: the numerator of the eased progress over 2 den^3.
easeInOutCubic(num, den) ==
    IF 2 * num < den
    THEN 8 * num * num * num
    ELSE (2 * den * den * den) - (8 * (den - num) * (den - num) * (den - num))

\* (easingFunctions[easingType] || linear)(progress), as a fraction; the
\* progress is taken in lowest terms to keep the cubes small.
easingFunctions(easingType, num, den) ==
    LET g == GCD(IF num < 0 THEN 0 - num ELSE num, den)
        n == num \div g
        d == den \div g
    IN  IF easingType = "ease-out"
        THEN [num |-> easeOutCubic(n, d), den |-> d * d * d]
        ELSE IF easingType = "ease-in-out"
        THEN [num |-> easeInOutCubic(n, d), den |-> 2 * d * d * d]
        ELSE [num |-> linear(num, den), den |-> den]

\* Variant: past the last keyframe the last pose is held.
Segment_holdsLast(kfs, t, loopDuration) ==
    LET i == FindSegment(kfs, t)
        startKf == IF i = 0 THEN kfs[Len(kfs)] ELSE kfs[i]
        segmentDuration == IF i = 0 THEN loopDuration ELSE kfs[i + 1].time - kfs[i].time
        timeIntoSegment == t - startKf.time
    IN  [startKeyframe |-> startKf,
         endPose |-> IF i = 0 THEN startKf.pose ELSE kfs[i + 1].pose,
         num |-> IF segmentDuration > 0 THEN timeIntoSegment ELSE 1,
         den |-> IF segmentDuration > 0 THEN segmentDuration ELSE 1]

\* The segment for a time t already reduced modulo the total duration, as
\* runAnimationLoop and handleScrub both resolve it.  A segment that is not
\* found is the loop-closing one, from the last keyframe back to
\* keyframes[0].  Progress is 1 when the segment has no positive duration.
Segment(kfs, t, loopDuration) ==
    LET i == FindSegment(kfs, t)
        startKf == IF i = 0 THEN kfs[Len(kfs)] ELSE kfs[i]
        segmentDuration == IF i = 0 THEN loopDuration ELSE kfs[i + 1].time - kfs[i].time
        timeIntoSegment == t - startKf.time
    IN  [startKeyframe |-> startKf,
         endPose |-> IF i = 0 THEN kfs[1].pose ELSE kfs[i + 1].pose,
         num |-> IF segmentDuration > 0 THEN timeIntoSegment ELSE 1,
         den |-> IF segmentDuration > 0 THEN segmentDuration ELSE 1]

\* runAnimationLoop: the time a tick stores.
TickTime(kfs, prevTime, deltaTime) == JsRem(prevTime + deltaTime, totalDuration(kfs))

\* runAnimationLoop: the pose a tick hands to onPoseUpdate, with the starting
\* keyframe's easing applied to the progress.
TickPose(kfs, newTime) ==
    LET seg == Segment(kfs, newTime, LOOP_DURATION)
        eased == easingFunctions(EasingOf(seg.startKeyframe), seg.num, seg.den)
    IN  InterpolatePose(seg.startKeyframe.pose, seg.endPose, eased.num, eased.den)

\* handleScrub: the pose applied for a scrub to `time`; the progress is used
\* as it is, no easing is applied.
ScrubPose(kfs, time) ==
    LET totalDur == kfs[Len(kfs)].time + SCRUB_LOOP_DURATION
        seg == Segment(kfs, JsRem(time, totalDur), SCRUB_LOOP_DURATION)
    IN  InterpolatePose(seg.startKeyframe.pose, seg.endPose, seg.num, seg.den)

\* Array.prototype.sort((a, b) => a.time - b.time): a stable sort by time.
RECURSIVE SortByTime(_)
SortByTime(kfs) ==
    IF Len(kfs) <= 1 THEN kfs
    ELSE LET rest == SortByTime(SubSeq(kfs, 1, Len(kfs) - 1))
             x == kfs[Len(kfs)]
             \* x was last in the input: it goes after every element whose
             \* time is not greater.
             n == Cardinality({i \in 1..Len(rest) : rest[i].time <= x.time})
         IN  SubSeq(rest, 1, n) \o <<x>> \o SubSeq(rest, n + 1, Len(rest))

\* handleAddTweenFrame: findIndex of the new keyframe in the sorted list
\* (0-based).
TweenIndex(kfs, time) == Cardinality({i \in 1..Len(kfs) : kfs[i].time <= time})

\* handleUpdateKeyframeTime: newKeyframes[index].time = newTime when the
\* index exists; nothing else is touched.
handleUpdateKeyframeTime(kfs, index, newTime) ==
    IF index + 1 \in 1..Len(kfs)
    THEN [kfs EXCEPT ![index + 1].time = newTime]
    ELSE kfs

\* Timeline.handleKeyframeMouseDown / handleMouseMove: the clamp of a drag
\* of keyframe `index` to the requested raw time, then onUpdateKeyframeTime.
\* The first keyframe cannot be dragged.
ClampKeyframeTime(kfs, index, rawTime) ==
    LET prevTime == kfs[index].time
        lower == Max(prevTime + MIN_SEGMENT_DURATION, rawTime)
    IN  IF index + 1 < Len(kfs)
        THEN Min(kfs[index + 2].time - MIN_SEGMENT_DURATION, lower)
        ELSE lower

\* Variant: the drag handler without its early return for the first keyframe.
handleKeyframeMouseDown_dragsFirst(kfs, index, rawTime) ==
    handleUpdateKeyframeTime(kfs, index,
        IF index = 0 THEN rawTime ELSE ClampKeyframeTime(kfs, index, rawTime))

handleKeyframeMouseDown(kfs, index, rawTime) ==
    IF index = 0 THEN kfs
    ELSE handleUpdateKeyframeTime(kfs, index, ClampKeyframeTime(kfs, index, rawTime))

\* The auto-save effect: with a keyframe selected and no playback,
\* transition or pointer interaction, the committed pose is written back
\* into the selected keyframe.
AutoSave(kfs, sel, pose, animating, transitioning, interacting) ==
    IF sel # NoIndex /\ ~animating /\ ~transitioning /\ ~interacting
       /\ sel + 1 \in 1..Len(kfs)
    THEN [kfs EXCEPT ![sel + 1].pose = pose]
    ELSE kfs

(***************************************************************************)
(* History: pure parts                                                     *)
(***************************************************************************)
\* { pivotOffsets: { ...pivotOffsets }, props: JSON.parse(JSON.stringify(props)) }
Snapshot(pose, pr) == [pivotOffsets |-> pose, props |-> pr]

\* Variant: a slice that keeps the whole array.
LastN_all(seq, n) == seq

\* Array.prototype.slice(-n): the last n elements.
LastN(seq, n) == IF Len(seq) <= n THEN seq ELSE SubSeq(seq, Len(seq) - n + 1, Len(seq))

\* An entry of the recording log.  recordSnapshot stores copies of the Pose
\* and the Proportions; an entry made by addLog has neither (NullPose,
\* NoProps).  Labels stand for the handler's label text.  poseInstalled and
\* propsInstalled tell that the entry's pivotOffsets (props) object is the
\* very object the committed Pose (Proportions) state holds: handleLogClick
\* installs the objects of the entry, not copies.
NoProps == <<>>
LogEntry(pose, pr, label) ==
    [pivotOffsets |-> pose, props |-> pr, label |-> label,
     poseInstalled |-> FALSE, propsInstalled |-> FALSE]

\* What an entry stores.
Content(entry) ==
    [pivotOffsets |-> entry.pivotOffsets, props |-> entry.props, label |-> entry.label]

\* recordSnapshot(label): prev => [...prev, {pivotOffsets, props, label}]
recordSnapshot(prev, pose, pr, label) == Append(prev, LogEntry(pose, pr, label))

\* addLog(message): prev => [...prev.slice(-99), {label: message}]
addLog(prev, message) == Append(LastN(prev, LOG_KEEP), LogEntry(NullPose, NoProps, message))

\* prev.filter((_, i) => i !== index), index 0-based
FilterOut(prev, index) ==
    [i \in 1..(Len(prev) - (IF index \in 0..(Len(prev) - 1) THEN 1 ELSE 0)) |->
        IF i <= index THEN prev[i] ELSE prev[i + 1]]

\* Variant: saveToHistory without setRedoStack([]).
saveToHistory_keepsRedo(hist, redo, pose, pr) ==
    [history |-> LastN(hist, HISTORY_KEEP) \o <<Snapshot(pose, pr)>>,
     redoStack |-> redo]

\* saveToHistory: setHistory(prev => [...prev.slice(-49), snapshot]) and
\* setRedoStack([]).
saveToHistory(hist, redo, pose, pr) ==
    [history |-> LastN(hist, HISTORY_KEEP) \o <<Snapshot(pose, pr)>>,
     redoStack |-> <<>>]

HistoryState(hist, redo, pose, pr) ==
    [history |-> hist, redoStack |-> redo, pivotOffsets |-> pose, props |-> pr]

\* Variant: undo without the playback guard.
undo_whilePlaying(hist, redo, pose, pr, animating, transitioning) ==
    IF Len(hist) = 0 \/ transitioning
    THEN HistoryState(hist, redo, pose, pr)
    ELSE LET previous == hist[Len(hist)]
         IN  HistoryState(SubSeq(hist, 1, Len(hist) - 1),
                          <<Snapshot(pose, pr)>> \o redo,
                          previous.pivotOffsets, previous.props)

\* undo: guarded by an empty stack, playback and a running transition.
undo(hist, redo, pose, pr, animating, transitioning) ==
    IF Len(hist) = 0 \/ animating \/ transitioning
    THEN HistoryState(hist, redo, pose, pr)
    ELSE LET previous == hist[Len(hist)]
         IN  HistoryState(SubSeq(hist, 1, Len(hist) - 1),
                          <<Snapshot(pose, pr)>> \o redo,
                          previous.pivotOffsets, previous.props)

\* Variant: redo without the push of the current state onto the undo stack.
redo_dropsCurrent(hist, redoSt, pose, pr, animating, transitioning) ==
    IF Len(redoSt) = 0 \/ animating \/ transitioning
    THEN HistoryState(hist, redoSt, pose, pr)
    ELSE LET next == redoSt[1]
         IN  HistoryState(hist, Tail(redoSt), next.pivotOffsets, next.props)

\* redo: the mirror of undo.
redo(hist, redoSt, pose, pr, animating, transitioning) ==
    IF Len(redoSt) = 0 \/ animating \/ transitioning
    THEN HistoryState(hist, redoSt, pose, pr)
    ELSE LET next == redoSt[1]
         IN  HistoryState(hist \o <<Snapshot(pose, pr)>>,
                          Tail(redoSt),
                          next.pivotOffsets, next.props)

(***************************************************************************)
(* Chain reaction                                                          *)
(***************************************************************************)
\* jointChainBehaviors[k] || {} with b ?? 0, s ?? 0: an unset entry is
\* [b |-> 0, s |-> 0, l |-> FALSE].
NoBehaviors == [k \in JOINT_KEYS |-> [b |-> 0, s |-> 0, l |-> FALSE]]

\* The children visited from a joint, in the order of the source.
ChainChildren(key) ==
    IF key = "waist" THEN <<"torso", "l_hip", "r_hip">>
    ELSE IF key = "torso" THEN <<"collar">>
    ELSE IF key = "collar" THEN <<"neck", "l_shoulder", "r_shoulder">>
    ELSE IF key \in DOMAIN JOINT_CHILD_MAP THEN <<JOINT_CHILD_MAP[key]>>
    ELSE <<>>

\* The joints below a joint in the hierarchy that the propagation walks.
RECURSIVE Descendants(_)
Descendants(key) ==
    LET children == {ChainChildren(key)[i] : i \in 1..Len(ChainChildren(key))}
    IN  children \cup UNION {Descendants(c) : c \in children}

\* Variant: a child whose total factor is 0 is left alone but hands the
\* parent's delta on to its own children.
RECURSIVE ChainVisit_passesThrough(_, _, _, _)
ChainVisit_passesThrough(children, currentDelta, st, behaviors) ==
    IF children = <<>> THEN st
    ELSE LET childKey == Head(children)
             totalFactor == behaviors[childKey].b + behaviors[childKey].s
             childDelta == currentDelta * totalFactor
             next ==
                 IF childKey \in st.visited THEN st
                 ELSE IF totalFactor = 0
                 THEN [st EXCEPT !.queue = Append(@, <<childKey, currentDelta>>),
                                 !.visited = @ \cup {childKey}]
                 ELSE [st EXCEPT !.offsets[childKey] = @ + childDelta,
                                 !.writes[childKey] = @ + 1,
                                 !.queue = Append(@, <<childKey, childDelta>>),
                                 !.visited = @ \cup {childKey}]
         IN  ChainVisit_passesThrough(Tail(children), currentDelta, next, behaviors)

\* Variant: a coupled child is enqueued with the delta of its parent instead
\* of its own.
RECURSIVE ChainVisit_queuesParentDelta(_, _, _, _)
ChainVisit_queuesParentDelta(children, currentDelta, st, behaviors) ==
    IF children = <<>> THEN st
    ELSE LET childKey == Head(children)
             totalFactor == behaviors[childKey].b + behaviors[childKey].s
             childDelta == currentDelta * totalFactor
             next ==
                 IF childKey \in st.visited \/ totalFactor = 0 THEN st
                 ELSE [st EXCEPT !.offsets[childKey] = @ + childDelta,
                                 !.writes[childKey] = @ + 1,
                                 !.queue = Append(@, <<childKey, currentDelta>>),
                                 !.visited = @ \cup {childKey}]
         IN  ChainVisit_queuesParentDelta(Tail(children), currentDelta, next, behaviors)

\* The body of `for (const childKey of children)`, as a fold over the
\* children.  st holds the objects of the call: initialOffsets (the Pose
\* passed in), offsets (newOffsets, the copy that is written), queue and
\* visited; writes counts the assignments to each joint of newOffsets.
RECURSIVE ChainVisit(_, _, _, _)
ChainVisit(children, currentDelta, st, behaviors) ==
    IF children = <<>> THEN st
    ELSE LET childKey == Head(children)
             totalFactor == behaviors[childKey].b + behaviors[childKey].s
             childDelta == currentDelta * totalFactor
             next ==
                 IF childKey \in st.visited \/ totalFactor = 0 THEN st
                 ELSE [st EXCEPT !.offsets[childKey] = @ + childDelta,
                                 !.writes[childKey] = @ + 1,
                                 !.queue = Append(@, <<childKey, childDelta>>),
                                 !.visited = @ \cup {childKey}]
         IN  ChainVisit(Tail(children), currentDelta, next, behaviors)

\* while (queue.length > 0) { const [currentKey, currentDelta] = queue.shift() ... }
RECURSIVE ChainLoop(_, _)
ChainLoop(st, behaviors) ==
    IF st.queue = <<>> THEN st
    ELSE LET head == Head(st.queue)
             popped == [st EXCEPT !.queue = Tail(st.queue)]
         IN  ChainLoop(ChainVisit(ChainChildren(head[1]), head[2], popped, behaviors),
                       behaviors)

\* Variant: the propagation also applies the delta to the starting joint.
ChainRun_movesStart(startingKey, delta, initialOffsets, behaviors) ==
    ChainLoop([initialOffsets |-> initialOffsets,
               offsets |-> [initialOffsets EXCEPT ![startingKey] = @ + delta],
               writes |-> [k \in JOINT_KEYS |-> IF k = startingKey THEN 1 ELSE 0],
               queue |-> <<<<startingKey, delta>>>>,
               visited |-> {startingKey}], behaviors)

\* Variant: the propagation writes into the Pose it was given (no copy).
ChainRun_inPlace(startingKey, delta, initialOffsets, behaviors) ==
    LET st == ChainLoop([initialOffsets |-> initialOffsets,
                         offsets |-> initialOffsets,
                         writes |-> [k \in JOINT_KEYS |-> 0],
                         queue |-> <<<<startingKey, delta>>>>,
                         visited |-> {startingKey}], behaviors)
    IN  [st EXCEPT !.initialOffsets = st.offsets]

\* One call of applyChainReaction, with the state it ends in:
\* newOffsets = { ...initialOffsets } is a copy, the queue starts with the
\* starting joint, which is marked visited.
ChainRun(startingKey, delta, initialOffsets, behaviors) ==
    ChainLoop([initialOffsets |-> initialOffsets,
               offsets |-> initialOffsets,
               writes |-> [k \in JOINT_KEYS |-> 0],
               queue |-> <<<<startingKey, delta>>>>,
               visited |-> {startingKey}], behaviors)

\* return newOffsets
applyChainReaction(startingKey, delta, initialOffsets, behaviors) ==
    ChainRun(startingKey, delta, initialOffsets, behaviors).offsets

(***************************************************************************)
(* Pose transition: pure parts                                             *)
(***************************************************************************)
\* Math.round(finalValue / 5) * 5, on whole degrees
RoundTo5(v) == ((2 * v + 5) \div 10) * 5

\* animatePoseTransition.animate: the pose written by a frame at progress
\* num/den of a transition from startPose to targetPose.  The progress is
\* eased with easeOutCubic in the 'lotte' motion style and with easeOutExpo
\* otherwise; the 'clockwork' style rounds every joint to a multiple of 5.
TransitionFramePose(startPose, targetPose, num, den, style) ==
    LET eased == IF style = "lotte"
                 THEN easingFunctions("ease-out", num, den)
                 ELSE [num |-> easeOutExpo(num, den), den |-> 32]
        newOffsets == InterpolatePose(startPose, targetPose, eased.num, eased.den)
    IN  IF style = "clockwork"
        THEN [k \in JOINT_KEYS |-> RoundTo5(newOffsets[k])]
        ELSE newOffsets

\* runClockworkJitter.jitterLoop: the poses a jitter frame can write.  Every
\* joint gets finalPose[key] + rand * jitterAmount with its own random
\* number; the model draws a whole-degree offset for the joints of
\* jitterJoints and 0 for the others.
JitteredPoses(finalPose, jitterJoints, offsets) ==
    {[k \in JOINT_KEYS |-> IF k \in jitterJoints THEN finalPose[k] + j ELSE finalPose[k]] :
        j \in offsets}

(***************************************************************************)
(* State                                                                   *)
(***************************************************************************)
VARIABLES
    pivotOffsets,              \* the committed Pose
    props,                     \* the Proportions
    keyframes,                 \* sequence of [pose, time]
    selectedKeyframeIndex,     \* 0-based index, or NoIndex
    isAnimating,               \* useAnimationEngine: playback is running
    animationTime,
    lastTimestampNull,         \* lastTimestamp.current === null
    isTransitioning,
    transition,                \* the pending frame callback of animatePoseTransition
    previewPivotOffsets,       \* the shadow Pose, or NullPose
    predictiveGhostingEnabled,
    draggingBoneKeyRef,        \* a joint key, or "none"
    isSliderDraggingRef,
    isInteractingRef,
    isCalibrated,
    isCalibrating,
    isConsoleVisible,          \* the control panel is rendered
    history,                   \* the undo stack, oldest first
    redoStack,                 \* the redo stack, next first
    jointChainBehaviors,
    motionStyle,               \* 'standard', 'clockwork' or 'lotte'
    jitterLoop,                \* the pending frame callback of runClockworkJitter
    lastOp,                    \* history variable: the handler that ran last
    opSeq,                     \* history variable: progress of undo; [edit;] redo
    tickedSincePlay,           \* history variable: a frame has run since playback started
    dragRun,                   \* history variable: a drag from its start to the undo after it
    preUndo,                   \* history variable: the state the last undo left behind
    heldDrag,                  \* history variable: a drag that was started and not moved
    recordingHistory,          \* the recording log, oldest first
    selectedLogIndex,          \* 0-based index into the log, or NoIndex
    logObserved,               \* the log is tracked in this behaviour
    logOps,                    \* history variable: handlers run while the log is tracked
    allJointPositions,         \* the world rotation the Renderer reported for each joint's
                               \* part, or NoPositions before the first report
    activePins,                \* the set of pinned joints
    ikCall,                    \* the calls of solveTwoBoneIK the IK effect made last
    ikPending,                 \* the IK effect is scheduled: one of its dependencies has
                               \* changed since it ran and its body has work to do
    ikSolution,                \* what solveTwoBoneIK returns for the reported positions,
                               \* the pins and the Proportions as they are
    ikRunParity                \* history variable: flips with every run of the IK effect

timelineVars == <<keyframes, selectedKeyframeIndex>>
playbackVars == <<isAnimating, animationTime, lastTimestampNull>>
transitionVars == <<isTransitioning, transition, jitterLoop, isCalibrated, isCalibrating,
                    isConsoleVisible>>
dragVars == <<previewPivotOffsets, draggingBoneKeyRef, isSliderDraggingRef, isInteractingRef>>
historyVars == <<history, redoStack>>
configVars == <<predictiveGhostingEnabled, jointChainBehaviors, motionStyle>>
ghostVars == <<lastOp, opSeq, preUndo, heldDrag, tickedSincePlay, dragRun>>
logVars == <<recordingHistory, selectedLogIndex, logObserved, logOps>>
ikVars == <<allJointPositions, activePins, ikCall>>
ikEffectVars == <<ikPending, ikSolution, ikRunParity>>

vars == <<pivotOffsets, props, timelineVars, playbackVars, transitionVars, dragVars,
          historyVars, configVars, ghostVars, logVars, ikVars, ikEffectVars>>

NoTransition ==
    [running |-> FALSE, startPose |-> NullPose, targetPose |-> NullPose,
     onComplete |-> "none", style |-> "standard"]

NoJitter == [running |-> FALSE, finalPose |-> NullPose, startPose |-> NullPose, frame |-> 0,
             onComplete |-> "none"]

NoSnapshot == <<>>

NoPositions == <<>>
NoIkResult == <<>>

(***************************************************************************)
(* History variables                                                       *)
(***************************************************************************)
Op(name, index, acted) == [op |-> name, index |-> index, acted |-> acted]

\* kind is "undo", "redo", "edit" (a handler that calls saveToHistory) or
\* "other"; opSeq follows the handlers through undo, undo;redo, undo;edit
\* and undo;edit;redo.
NextOpSeq(kind, acted) ==
    CASE kind = "undo" /\ acted -> "undo"
      [] kind = "redo" /\ opSeq = "undo" -> "undo;redo"
      [] kind = "redo" /\ opSeq = "undo;edit" -> "undo;edit;redo"
      [] kind = "edit" /\ acted /\ opSeq = "undo" -> "undo;edit"
      [] OTHER -> ""

\* heldDrag follows a drag from its start ("held", with the committed Pose
\* at that moment) over a release without a move ("released") to the next
\* user operation; frame callbacks are not user operations.
NoHeldDrag == [phase |-> "none", pose |-> NullPose]

NextHeldDrag(name, acted) ==
    CASE name \in {"startDrag", "sliderDown"} /\ acted ->
             [phase |-> "held", pose |-> pivotOffsets]
      [] name = "interactionEnd" /\ heldDrag.phase = "held" ->
             [heldDrag EXCEPT !.phase = "released"]
      [] name \in {"transitionFrame", "jitterFrame", "tick"} -> heldDrag
      [] OTHER -> NoHeldDrag

\* dragRun follows a drag from its start ("held", with the committed Pose
\* and the Proportions at that moment) over its moves and its release
\* ("released") to an undo ("undone"); any other user operation ends it.
NoDragRun == [phase |-> "none", pose |-> NullPose, props |-> NoProps]

NextDragRun(name, acted) ==
    CASE name = "startDrag" /\ acted ->
             [phase |-> "held", pose |-> pivotOffsets, props |-> props]
      [] name = "interactionMove" /\ dragRun.phase = "held" -> dragRun
      [] name = "interactionEnd" /\ dragRun.phase = "held" ->
             [dragRun EXCEPT !.phase = "released"]
      [] name \in {"transitionFrame", "jitterFrame"} -> dragRun
      [] name = "undo" /\ acted /\ dragRun.phase = "released" ->
             [dragRun EXCEPT !.phase = "undone"]
      [] OTHER -> NoDragRun

\* The calls of recordSnapshot and addLog a handler makes, in its order.
\* Both read the Pose and the Proportions of the render the handler was
\* created in, which is the state before the handler.
SnapshotCall(label) == [snapshot |-> TRUE, label |-> label]
LogCall(message) == [snapshot |-> FALSE, label |-> message]

LogCalls(name, acted) ==
    CASE name = "addKeyframe" /\ acted ->
             <<LogCall("ANIM: Keyframe added."), SnapshotCall("ADD_KEYFRAME")>>
      [] name = "fullReset" -> <<LogCall("ANIM: Timeline cleared.")>>
      [] name = "selectKeyframe" -> <<LogCall("ANIM: Selected keyframe for editing.")>>
      [] name = "addTweenFrame" /\ acted -> <<LogCall("ANIM: Added tween as new keyframe.")>>
      [] name = "undo" /\ acted -> <<LogCall("UNDO: System state reverted.")>>
      [] name = "redo" /\ acted -> <<LogCall("REDO: System state reapplied.")>>
      [] name = "startCalibration" /\ acted ->
             <<SnapshotCall("CALIBRATION_START"), LogCall("SEQUENCE: CALIBRATION START...")>>
      [] name = "startDrag" /\ acted -> <<SnapshotCall("START_DRAG")>>
      [] name = "interactionEnd" ->
             (IF activePins' # activePins THEN <<LogCall("PIN")>> ELSE <<>>)
                 \o (IF draggingBoneKeyRef # "none"
                        /\ (~predictiveGhostingEnabled \/ previewPivotOffsets # NullPose)
                     THEN <<SnapshotCall("END_DRAG")>> ELSE <<>>)
      [] name = "togglePin" /\ activePins' # activePins -> <<LogCall("PIN")>>
      [] name = "sliderDown" -> <<SnapshotCall("START_RANGE")>>
      [] name = "propSliderDown" -> <<SnapshotCall("START_PROP")>>
      [] name = "resetProps" ->
             <<SnapshotCall("PROPS_RESET"), LogCall("COMMAND: Anatomical proportions reset.")>>
      [] name = "setFixedPose" /\ acted ->
             <<SnapshotCall("SET_POSE"), LogCall("COMMAND: Applied state.")>>
      [] name = "toggleGhosting" ->
             <<SnapshotCall(IF predictiveGhostingEnabled THEN "GHOST_OFF" ELSE "GHOST_ON")>>
      [] name = "exportRecordingJSON" ->
             <<LogCall("IO: Full rotation history exported as JSON.")>>
      [] name = "clearHistory" -> <<LogCall("COMMAND: Recording history cleared.")>>
      [] name = "keyDownDelete" /\ acted
            /\ selectedLogIndex \in 0..(Len(recordingHistory) - 1) ->
             <<LogCall("LOG DELETED")>>
      [] OTHER -> <<>>

RECURSIVE ApplyLogCalls(_, _, _, _)
ApplyLogCalls(prev, calls, pose, pr) ==
    IF calls = <<>> THEN prev
    ELSE ApplyLogCalls(IF Head(calls).snapshot
                       THEN recordSnapshot(prev, pose, pr, Head(calls).label)
                       ELSE addLog(prev, Head(calls).label),
                       Tail(calls), pose, pr)

\* Variant: handlers that write the new Pose and Proportions into the
\* objects the state holds, instead of setting new objects.
StoredObjects_writtenInPlace(log, newPose, newProps) ==
    [i \in 1..Len(log) |->
        [log[i] EXCEPT !.pivotOffsets = IF log[i].poseInstalled THEN newPose ELSE @,
                       !.props = IF log[i].propsInstalled THEN newProps ELSE @]]

\* The objects of the log after a handler has set the Pose to newPose and the
\* Proportions to newProps.  Every setPivotOffsets and setProps is called
\* with a new object ({ ...baseOffsets, [key]: value }, newOffsets,
\* { ...p, [key]: ... }) or with the object of another snapshot; no handler
\* assigns to a field of the object the state holds, so the objects of the
\* log stay as they are.
StoredObjects(log, newPose, newProps) == log

\* The installed flags after handler `name`: handleLogClick installs the
\* objects of the clicked entry; any other handler that sets the Pose
\* (Proportions) replaces the object the state holds.
Installed(log, name, index, acted, poseReplaced, propsReplaced) ==
    [i \in 1..Len(log) |->
        IF name = "logClick"
        THEN IF ~acted THEN log[i]
             ELSE [log[i] EXCEPT
                      !.poseInstalled = (i = index + 1),
                      !.propsInstalled = IF log[index + 1].props # NoProps
                                         THEN (i = index + 1) ELSE @]
        ELSE [log[i] EXCEPT
                 !.poseInstalled = @ /\ ~poseReplaced,
                 !.propsInstalled = @ /\ ~propsReplaced]]

\* The handlers that call setPivotOffsets whenever they act.
PoseSetters == {"undo", "redo", "setFixedPose", "transitionFrame", "jitterFrame"}

\* The log before the handler's calls: clearHistory empties it, the Delete
\* key filters the selected entry out.
LogBase(log, name, acted) ==
    CASE name = "clearHistory" -> <<>>
      [] name = "keyDownDelete" /\ acted -> FilterOut(log, selectedLogIndex)
      [] OTHER -> log

\* The recording log and its selection after the handler that lastOp' names,
\* from the state before it and the Pose and Proportions it has set.  The
\* calibration's callback runs in the frame that sets isCalibrated: it
\* calls recordSnapshot("CALIBRATION_END"), made by the render
\* startCalibration ran in, and addLog.  A behaviour that does not track the
\* log leaves all of it as it is: the log is read by handleLogClick and the
\* Delete key only.
LogStep ==
    LET name == lastOp'.op
        index == lastOp'.index
        acted == lastOp'.acted
        poseReplaced == \/ pivotOffsets' # pivotOffsets
                        \/ name = "selectKeyframe"
                        \/ (name \in PoseSetters /\ acted)
        propsReplaced == \/ props' # props
                         \/ name = "resetProps"
                         \/ (name \in {"undo", "redo"} /\ acted)
        stored == StoredObjects(recordingHistory, pivotOffsets', props')
        installed == Installed(stored, name, index, acted, poseReplaced, propsReplaced)
        logged == ApplyLogCalls(LogBase(installed, name, acted), LogCalls(name, acted),
                                pivotOffsets, props)
        startPose == IF jitterLoop.running THEN jitterLoop.startPose
                     ELSE transition.startPose
    IN  /\ logObserved' = logObserved
        /\ logOps' = IF logObserved /\ name \notin {"transitionFrame", "jitterFrame"}
                     THEN logOps + 1 ELSE logOps
        /\ recordingHistory' =
               IF ~logObserved THEN recordingHistory
               ELSE IF ~isCalibrated /\ isCalibrated'
               THEN addLog(recordSnapshot(logged, startPose, props, "CALIBRATION_END"),
                           "SEQUENCE: SYSTEM ALIGNED.")
               ELSE logged
        /\ selectedLogIndex' =
               IF ~logObserved THEN selectedLogIndex
               ELSE IF name = "logClick" THEN index
               ELSE IF name = "keyDownDelete" /\ acted THEN NoIndex
               ELSE selectedLogIndex

\* The results of solveTwoBoneIK: none, or the two angles of a solution.
IkResults == {NoIkResult, [angle1 |-> 20, angle2 |-> -40]}

\* The scheduling of the IK effect, useEffect(..., [previewPivotOffsets,
\* activePins, pinTargetPositions, allJointPositions, baseH, props,
\* bodyRotation]): the effect runs after a render in which a dependency is
\* a new value or a new object.  A run that applied a solution has called
\* setPreviewPivotOffsets(tempOffsets) with a new object and so schedules the
\* effect again; a run without a shadow Pose or without pins returns at
\* once.  solveTwoBoneIK is a function of the reported positions, the pin
\* targets and the Proportions: its result is drawn anew when one of them
\* changes and stays otherwise; without pins or positions it is not called.
IkSchedule ==
    LET name == lastOp'.op
        newShadow ==
            \/ previewPivotOffsets' # previewPivotOffsets
            \/ /\ name \in {"startDrag", "sliderDown", "interactionMove", "pivotChange"}
               /\ lastOp'.acted
               /\ predictiveGhostingEnabled
        newInputs ==
            \/ name = "positionsUpdate"
            \/ activePins' # activePins
            \/ props' # props
        bodyRuns ==
            /\ previewPivotOffsets' # NullPose
            /\ activePins' # {}
            /\ allJointPositions' # NoPositions
    IN  /\ ikPending' = IF name = "ikEffect" THEN lastOp'.acted
                        ELSE (ikPending \/ newShadow \/ newInputs) /\ bodyRuns
        /\ ikSolution' \in IF activePins' = {} \/ allJointPositions' = NoPositions
                           THEN {NoIkResult}
                           ELSE IF newInputs THEN IkResults ELSE {ikSolution}
        /\ ikRunParity' = IF name = "ikEffect" THEN ~ikRunParity ELSE ikRunParity

Record(name, index, acted, kind) ==
    /\ heldDrag' = NextHeldDrag(name, acted)
    /\ dragRun' = NextDragRun(name, acted)
    /\ lastOp' = Op(name, index, acted)
    /\ opSeq' = NextOpSeq(kind, acted)
    /\ tickedSincePlay' = IF name = "play" /\ acted /\ ~isAnimating THEN FALSE
                          ELSE IF name = "tick" THEN TRUE
                          ELSE tickedSincePlay
    /\ preUndo' = IF kind = "undo" /\ acted
                  THEN HistoryState(history, redoStack, pivotOffsets, props)
                  ELSE IF NextOpSeq(kind, acted) = "" THEN NoSnapshot
                  ELSE preUndo

(***************************************************************************)
(* Init: the state after App is mounted                                    *)
(***************************************************************************)
Init ==
    /\ pivotOffsets = INITIAL_CHALLENGE_POSE
    /\ props = ATOMIC_PROPS
    /\ keyframes = <<>>
    /\ selectedKeyframeIndex = NoIndex
    /\ isAnimating = FALSE
    /\ animationTime = 0
    /\ lastTimestampNull = TRUE
    /\ isTransitioning = FALSE
    /\ transition = NoTransition
    /\ jitterLoop = NoJitter
    /\ motionStyle = "standard"
    /\ previewPivotOffsets = NullPose
    /\ predictiveGhostingEnabled = TRUE
    /\ draggingBoneKeyRef = "none"
    /\ isSliderDraggingRef = FALSE
    /\ isInteractingRef = FALSE
    /\ isCalibrated = FALSE
    /\ isCalibrating = FALSE
    /\ isConsoleVisible = FALSE
    /\ history = <<>>
    /\ redoStack = <<>>
    /\ jointChainBehaviors = NoBehaviors
    /\ lastOp = Op("init", NoIndex, FALSE)
    /\ opSeq = ""
    /\ tickedSincePlay = FALSE
    /\ preUndo = NoSnapshot
    /\ heldDrag = NoHeldDrag
    /\ dragRun = NoDragRun
    /\ recordingHistory = <<>>
    /\ selectedLogIndex = NoIndex
    /\ logObserved = FALSE
    /\ logOps = 0
    /\ allJointPositions = NoPositions
    /\ activePins = {}
    /\ ikCall = {}
    /\ ikPending = FALSE
    /\ ikSolution = NoIkResult
    /\ ikRunParity = FALSE

\* The auto-save effect runs after every render: each action ends with it,
\* on the values the action leaves.
Commit(kfs) ==
    keyframes' = AutoSave(kfs, selectedKeyframeIndex', pivotOffsets', isAnimating',
                          isTransitioning', isInteractingRef')

\* The playback effect depends on runAnimationLoop, which depends on the
\* keyframes array: a new array while playing restarts the loop with
\* lastTimestamp.current = null.
RestartLoop == lastTimestampNull' = IF isAnimating THEN TRUE ELSE lastTimestampNull

(***************************************************************************)
(* Timeline handlers                                                       *)
(***************************************************************************)
\* handleAddKeyframe
AddKeyframe ==
    LET acts == ~(isAnimating \/ isTransitioning)
        newTime == IF Len(keyframes) > 0
                   THEN keyframes[Len(keyframes)].time + KEYFRAME_SPACING ELSE 0
    IN  /\ isConsoleVisible
        /\ Record("addKeyframe", Len(keyframes), acts, "other")
        /\ selectedKeyframeIndex' = IF acts THEN Len(keyframes) ELSE selectedKeyframeIndex
        /\ UNCHANGED <<pivotOffsets, props, playbackVars, transitionVars, dragVars,
                       historyVars, configVars>>
        /\ Commit(IF acts THEN Append(keyframes, Keyframe(pivotOffsets, newTime))
                  ELSE keyframes)
        /\ UNCHANGED ikVars
        /\ LogStep
        /\ IkSchedule

\* handleAddTweenFrame
AddTweenFrame ==
    LET acts == ~(isAnimating \/ Len(keyframes) < 2)
        newKeyframes == SortByTime(Append(keyframes, Keyframe(pivotOffsets, animationTime)))
    IN  /\ isConsoleVisible
        /\ Record("addTweenFrame", TweenIndex(keyframes, animationTime), acts, "other")
        /\ selectedKeyframeIndex' =
               IF acts THEN TweenIndex(keyframes, animationTime) ELSE selectedKeyframeIndex
        /\ UNCHANGED <<pivotOffsets, props, playbackVars, transitionVars, dragVars,
                       historyVars, configVars>>
        /\ Commit(IF acts THEN newKeyframes ELSE keyframes)
        /\ UNCHANGED ikVars
        /\ LogStep
        /\ IkSchedule

\* Timeline: mouse down on keyframe `index` and a mouse move that asks for
\* rawTime (startTime + deltaTime); the handler clamps and calls
\* handleUpdateKeyframeTime.
DragKeyframe(index, rawTime) ==
    /\ index \in 0..(Len(keyframes) - 1)
    /\ isConsoleVisible
    /\ Record("dragKeyframe", index, index # 0, "other")
    /\ UNCHANGED <<pivotOffsets, props, selectedKeyframeIndex, isAnimating, animationTime,
                   transitionVars, dragVars, historyVars, configVars>>
    /\ IF index # 0 THEN RestartLoop ELSE UNCHANGED lastTimestampNull
    /\ Commit(handleKeyframeMouseDown(keyframes, index, rawTime))
    /\ UNCHANGED ikVars
    /\ LogStep
    /\ IkSchedule

\* Variant: handleSelectKeyframe without the call of handlePause().
handleSelectKeyframe_noPause(kfs, index, animating) ==
    [isAnimating |-> animating,
     selectedKeyframeIndex |-> index,
     pivotOffsets |-> kfs[index + 1].pose,
     animationTime |-> kfs[index + 1].time]

\* handleSelectKeyframe: what the handler sets.
handleSelectKeyframe(kfs, index, animating) ==
    [isAnimating |-> IF animating THEN FALSE ELSE animating,   \* handlePause()
     selectedKeyframeIndex |-> index,
     pivotOffsets |-> kfs[index + 1].pose,
     animationTime |-> kfs[index + 1].time]

\* handleSelectKeyframe (a click on a keyframe of the track)
SelectKeyframe(index) ==
    /\ index \in 0..(Len(keyframes) - 1)
    /\ isConsoleVisible
    /\ Record("selectKeyframe", index, isAnimating, "other")   \* acted: handlePause() ran
    /\ isAnimating' = handleSelectKeyframe(keyframes, index, isAnimating).isAnimating
    /\ selectedKeyframeIndex' =
           handleSelectKeyframe(keyframes, index, isAnimating).selectedKeyframeIndex
    /\ pivotOffsets' = handleSelectKeyframe(keyframes, index, isAnimating).pivotOffsets
    /\ animationTime' = handleSelectKeyframe(keyframes, index, isAnimating).animationTime
    /\ UNCHANGED <<props, lastTimestampNull, transitionVars, dragVars, historyVars,
                   configVars>>
    /\ Commit(keyframes)
    /\ UNCHANGED ikVars
    /\ LogStep
    /\ IkSchedule

\* Timeline.handleScrubStart / updateScrubTime, then handleScrub(time): the
\* track only scrubs with two keyframes or more, to a time in
\* 0..totalDuration.
Scrub(time) ==
    /\ Len(keyframes) >= 2
    /\ time \in 0..totalDuration(keyframes)
    /\ isConsoleVisible
    /\ Record("scrub", NoIndex, TRUE, "other")
    /\ isAnimating' = FALSE
    /\ selectedKeyframeIndex' = NoIndex
    /\ animationTime' = time
    /\ pivotOffsets' =
           IF keyframes[Len(keyframes)].time + SCRUB_LOOP_DURATION <= 0
           THEN pivotOffsets ELSE ScrubPose(keyframes, time)
    /\ UNCHANGED <<props, lastTimestampNull, transitionVars, dragVars, historyVars,
                   configVars>>
    /\ Commit(keyframes)
    /\ UNCHANGED ikVars
    /\ LogStep
    /\ IkSchedule

\* Variant: reset that applies the last keyframe's pose.
reset_lastPose(kfs, pose) ==
    [isAnimating |-> FALSE,
     animationTime |-> 0,
     pivotOffsets |-> IF Len(kfs) > 0 THEN kfs[Len(kfs)].pose ELSE pose]

\* useAnimationEngine.reset: what the call sets, from the keyframes and the
\* committed pose.
reset(kfs, pose) ==
    [isAnimating |-> FALSE,
     animationTime |-> 0,
     pivotOffsets |-> IF Len(kfs) > 0 THEN kfs[1].pose ELSE pose]

\* handleFullAnimationReset: resetAnimationEngine(), then the timeline is
\* cleared.  The reset button is disabled without keyframes.
FullAnimationReset ==
    /\ Len(keyframes) > 0
    /\ isConsoleVisible
    /\ Record("fullReset", NoIndex, isAnimating, "other")   \* acted: playback was running
    /\ isAnimating' = reset(keyframes, pivotOffsets).isAnimating
    /\ animationTime' = reset(keyframes, pivotOffsets).animationTime
    /\ pivotOffsets' = reset(keyframes, pivotOffsets).pivotOffsets
    /\ selectedKeyframeIndex' = NoIndex
    /\ UNCHANGED <<props, lastTimestampNull, transitionVars, dragVars, historyVars,
                   configVars>>
    /\ Commit(<<>>)
    /\ UNCHANGED ikVars
    /\ LogStep
    /\ IkSchedule

(***************************************************************************)
(* Playback scheduler (useAnimationEngine)                                 *)
(***************************************************************************)
\* Variant: play with the guard keyframes.length < 1.
play_oneKeyframe(kfs) == ~(Len(kfs) < 1)

\* play: whether the call starts playback.
play(kfs) == ~(Len(kfs) < 2)

\* play(), wired to the Timeline's play button as handlePlay.  The effect on
\* isAnimating clears lastTimestamp when playback starts.
Play ==
    LET acts == play(keyframes)
    IN  /\ isConsoleVisible
        /\ Record("play", NoIndex, acts, "other")
        /\ isAnimating' = IF acts THEN TRUE ELSE isAnimating
        /\ lastTimestampNull' = IF acts /\ ~isAnimating THEN TRUE ELSE lastTimestampNull
        /\ UNCHANGED <<pivotOffsets, props, selectedKeyframeIndex, animationTime,
                       transitionVars, dragVars, historyVars, configVars>>
        /\ Commit(keyframes)
        /\ UNCHANGED ikVars
        /\ LogStep
        /\ IkSchedule

\* pause()
Pause ==
    /\ isConsoleVisible
    /\ Record("pause", NoIndex, TRUE, "other")
    /\ isAnimating' = FALSE
    /\ UNCHANGED <<pivotOffsets, props, selectedKeyframeIndex, animationTime,
                   lastTimestampNull, transitionVars, dragVars, historyVars, configVars>>
    /\ Commit(keyframes)
    /\ UNCHANGED ikVars
    /\ LogStep
    /\ IkSchedule

\* Variant: a frame on a timeline of fewer than two keyframes rewinds the
\* playhead and keeps the scheduler playing.
runAnimationLoop_rewinds(kfs, animating, time, pose, timestampNull, elapsed) ==
    IF Len(kfs) < 2 \/ totalDuration(kfs) = 0
    THEN [isAnimating |-> animating, animationTime |-> 0, pivotOffsets |-> pose,
          lastTimestampNull |-> timestampNull]
    ELSE LET deltaTime == IF timestampNull THEN 0 ELSE elapsed
             newTime == TickTime(kfs, time, deltaTime)
         IN  [isAnimating |-> animating, animationTime |-> newTime,
              pivotOffsets |-> TickPose(kfs, newTime), lastTimestampNull |-> FALSE]

\* runAnimationLoop(timestamp): what a frame leaves.  With fewer than two
\* keyframes it stops playback and returns; otherwise deltaTime is the
\* difference to the previous timestamp, 0 on the first frame after
\* lastTimestamp was cleared.
runAnimationLoop(kfs, animating, time, pose, timestampNull, elapsed) ==
    IF Len(kfs) < 2 \/ totalDuration(kfs) = 0
    THEN [isAnimating |-> FALSE, animationTime |-> time, pivotOffsets |-> pose,
          lastTimestampNull |-> timestampNull]
    ELSE LET deltaTime == IF timestampNull THEN 0 ELSE elapsed
             newTime == TickTime(kfs, time, deltaTime)
         IN  [isAnimating |-> animating, animationTime |-> newTime,
              pivotOffsets |-> TickPose(kfs, newTime), lastTimestampNull |-> FALSE]

\* The frame callback that is pending while isAnimating.
Tick(elapsed) ==
    /\ isAnimating
    /\ Record("tick", NoIndex, TRUE, "other")
    /\ LET frame == runAnimationLoop(keyframes, isAnimating, animationTime, pivotOffsets,
                                     lastTimestampNull, elapsed)
       IN  /\ isAnimating' = frame.isAnimating
           /\ animationTime' = frame.animationTime
           /\ pivotOffsets' = frame.pivotOffsets
           /\ lastTimestampNull' = frame.lastTimestampNull
    /\ UNCHANGED <<props, selectedKeyframeIndex, transitionVars, dragVars, historyVars,
                   configVars>>
    /\ Commit(keyframes)
    /\ UNCHANGED ikVars
    /\ LogStep
    /\ IkSchedule

(***************************************************************************)
(* History handlers                                                        *)
(***************************************************************************)
\* undo (the button, Ctrl+Z)
Undo ==
    LET r == undo(history, redoStack, pivotOffsets, props, isAnimating, isTransitioning)
        acts == ~(Len(history) = 0 \/ isAnimating \/ isTransitioning)
    IN  /\ Record("undo", NoIndex, acts, "undo")
        /\ history' = r.history
        /\ redoStack' = r.redoStack
        /\ pivotOffsets' = r.pivotOffsets
        /\ props' = r.props
        /\ UNCHANGED <<selectedKeyframeIndex, playbackVars, transitionVars, dragVars,
                       configVars>>
        /\ Commit(keyframes)
        /\ UNCHANGED ikVars
        /\ LogStep
        /\ IkSchedule

\* redo (the button, Ctrl+Y, Ctrl+Shift+Z)
Redo ==
    LET r == redo(history, redoStack, pivotOffsets, props, isAnimating, isTransitioning)
        acts == ~(Len(redoStack) = 0 \/ isAnimating \/ isTransitioning)
    IN  /\ Record("redo", NoIndex, acts, "redo")
        /\ history' = r.history
        /\ redoStack' = r.redoStack
        /\ pivotOffsets' = r.pivotOffsets
        /\ props' = r.props
        /\ UNCHANGED <<selectedKeyframeIndex, playbackVars, transitionVars, dragVars,
                       configVars>>
        /\ Commit(keyframes)
        /\ UNCHANGED ikVars
        /\ LogStep
        /\ IkSchedule

\* saveToHistory(), as the handlers below call it
SaveToHistory ==
    /\ history' = saveToHistory(history, redoStack, pivotOffsets, props).history
    /\ redoStack' = saveToHistory(history, redoStack, pivotOffsets, props).redoStack

\* setFixedPose(T_POSE, 'T-Pose'): the ALIGN T-POSE button
SetFixedPose(p) ==
    LET acts == ~(isAnimating \/ isTransitioning)
    IN  /\ isConsoleVisible
        /\ ~isTransitioning        \* the button is disabled during a transition
        /\ Record("setFixedPose", NoIndex, acts, "edit")
        /\ IF acts
           THEN SaveToHistory /\ pivotOffsets' = p
           ELSE UNCHANGED <<historyVars, pivotOffsets>>
        /\ UNCHANGED <<props, selectedKeyframeIndex, playbackVars, transitionVars,
                       dragVars, configVars>>
        /\ Commit(keyframes)
        /\ UNCHANGED ikVars
        /\ LogStep
        /\ IkSchedule

\* resetProps: the RESET button of the proportions tab, disabled during
\* playback and transitions
ResetProps ==
    /\ ~(isAnimating \/ isTransitioning)
    /\ isConsoleVisible
    /\ Record("resetProps", NoIndex, TRUE, "edit")
    /\ SaveToHistory
    /\ props' = ATOMIC_PROPS
    /\ UNCHANGED <<pivotOffsets, selectedKeyframeIndex, playbackVars, transitionVars,
                   dragVars, configVars>>
    /\ Commit(keyframes)
    /\ UNCHANGED ikVars
    /\ LogStep
    /\ IkSchedule

\* A proportion slider: onMouseDown saves the history.  The slider is
\* disabled during playback and transitions.
PropSliderDown ==
    /\ ~(isAnimating \/ isTransitioning)
    /\ isConsoleVisible
    /\ Record("propSliderDown", NoIndex, TRUE, "edit")
    /\ SaveToHistory
    /\ UNCHANGED <<pivotOffsets, props, selectedKeyframeIndex, playbackVars,
                   transitionVars, dragVars, configVars>>
    /\ Commit(keyframes)
    /\ UNCHANGED ikVars
    /\ LogStep
    /\ IkSchedule

\* updateProp(key, axis, val): onChange of a proportion slider
UpdateProp(key, axis, val) ==
    /\ ~(isAnimating \/ isTransitioning)
    /\ isConsoleVisible
    /\ Record("updateProp", NoIndex, TRUE, "other")
    /\ props' = [props EXCEPT ![key][axis] = val]
    /\ UNCHANGED <<pivotOffsets, selectedKeyframeIndex, playbackVars, transitionVars,
                   dragVars, historyVars, configVars>>
    /\ Commit(keyframes)
    /\ UNCHANGED ikVars
    /\ LogStep
    /\ IkSchedule

\* The PREDICTIVE GHOST button, disabled during a transition
ToggleGhosting ==
    /\ ~isTransitioning
    /\ isConsoleVisible
    /\ Record("toggleGhosting", NoIndex, TRUE, "edit")
    /\ SaveToHistory
    /\ predictiveGhostingEnabled' = ~predictiveGhostingEnabled
    /\ UNCHANGED <<pivotOffsets, props, selectedKeyframeIndex, playbackVars,
                   transitionVars, dragVars, jointChainBehaviors, motionStyle>>
    /\ Commit(keyframes)
    /\ UNCHANGED ikVars
    /\ LogStep
    /\ IkSchedule

(***************************************************************************)
(* Pose transitions                                                        *)
(***************************************************************************)
\* animatePoseTransition(targetPose, duration, onComplete): a pending frame
\* of an earlier transition is cancelled, the start pose is the committed
\* pose.
StartTransition(targetPose, onComplete) ==
    /\ isTransitioning' = TRUE
    /\ transition' = [running |-> TRUE, startPose |-> pivotOffsets,
                      targetPose |-> targetPose, onComplete |-> onComplete,
                      style |-> motionStyle]
    /\ UNCHANGED jitterLoop

\* startCalibration: a click on the stage before the figure is calibrated
StartCalibration ==
    LET acts == ~(isCalibrated \/ isCalibrating \/ isAnimating \/ isTransitioning)
    IN  /\ ~isCalibrated /\ ~isCalibrating
        /\ Record("startCalibration", NoIndex, acts, "edit")
        /\ IF acts
           THEN /\ SaveToHistory
                /\ isCalibrating' = TRUE
                /\ StartTransition(T_POSE, "calibration")
                /\ UNCHANGED <<isCalibrated, isConsoleVisible>>
           ELSE UNCHANGED <<historyVars, transitionVars>>
        /\ UNCHANGED <<pivotOffsets, props, selectedKeyframeIndex, playbackVars, dragVars,
                       configVars>>
        /\ Commit(keyframes)
        /\ UNCHANGED ikVars
        /\ LogStep
        /\ IkSchedule

\* What onComplete sets: the calibration's callback marks the figure
\* calibrated and opens the console; the drag's callback writes the target
\* pose again.
OnComplete(name) ==
    /\ isCalibrating' = IF name = "calibration" THEN FALSE ELSE isCalibrating
    /\ isCalibrated' = IF name = "calibration" THEN TRUE ELSE isCalibrated
    /\ isConsoleVisible' = IF name = "calibration" THEN TRUE ELSE isConsoleVisible

\* animate(now): one frame of the running transition, at progress num/den
\* of its duration.  The last frame (progress 1) ends the transition; it
\* writes the final pose and runs onComplete, or in the 'clockwork' style
\* writes the rounded pose and starts the jitter loop, which does both
\* later.  A transition lasts longer than the two frames of a jitter loop, so
\* its frames come after the loop's.
TransitionFrame(num, den) ==
    /\ transition.running
    /\ ~jitterLoop.running
    /\ Record("transitionFrame", NoIndex, TRUE, "other")
    /\ IF num < den
       THEN /\ pivotOffsets' = TransitionFramePose(transition.startPose,
                                                   transition.targetPose, num, den,
                                                   transition.style)
            /\ UNCHANGED transitionVars
       ELSE /\ isTransitioning' = FALSE
            /\ transition' = NoTransition
            /\ IF transition.style = "clockwork"
               THEN /\ pivotOffsets' = TransitionFramePose(transition.startPose,
                                                           transition.targetPose, 1, 1,
                                                           transition.style)
                    /\ jitterLoop' = [running |-> TRUE,
                                      finalPose |-> transition.targetPose,
                                      startPose |-> transition.startPose,
                                      frame |-> 0,
                                      onComplete |-> transition.onComplete]
                    /\ UNCHANGED <<isCalibrating, isCalibrated, isConsoleVisible>>
               ELSE /\ pivotOffsets' = transition.targetPose
                    /\ OnComplete(transition.onComplete)
                    /\ UNCHANGED jitterLoop
    /\ UNCHANGED <<props, selectedKeyframeIndex, playbackVars, dragVars, historyVars,
                   configVars>>
    /\ Commit(keyframes)
    /\ UNCHANGED ikVars
    /\ LogStep
    /\ IkSchedule

\* Variant: a jitter loop that never counts its frames and so never writes
\* the final pose.
JitterFrame_keepsJittering(jitterJoints, offset) ==
    /\ jitterLoop.running
    /\ Record("jitterFrame", NoIndex, TRUE, "other")
    /\ pivotOffsets' \in JitteredPoses(jitterLoop.finalPose, jitterJoints, {offset})
    /\ UNCHANGED <<props, selectedKeyframeIndex, playbackVars, transitionVars,
                   dragVars, historyVars, configVars>>
    /\ Commit(keyframes)
    /\ UNCHANGED ikVars
    /\ LogStep
    /\ IkSchedule

\* runClockworkJitter.jitterLoop: two frames write a jittered pose, the third
\* writes the final pose and runs onComplete.
JitterFrame(jitterJoints, offset) ==
    /\ jitterLoop.running
    /\ Record("jitterFrame", NoIndex, TRUE, "other")
    /\ IF jitterLoop.frame >= JITTER_FRAMES
       THEN /\ pivotOffsets' = jitterLoop.finalPose
            /\ OnComplete(jitterLoop.onComplete)
            /\ jitterLoop' = NoJitter
       ELSE /\ pivotOffsets' \in JitteredPoses(jitterLoop.finalPose, jitterJoints, {offset})
            /\ jitterLoop' = [jitterLoop EXCEPT !.frame = @ + 1]
            /\ UNCHANGED <<isCalibrating, isCalibrated, isConsoleVisible>>
    /\ UNCHANGED <<props, selectedKeyframeIndex, playbackVars, isTransitioning, transition,
                   dragVars, historyVars, configVars>>
    /\ Commit(keyframes)
    /\ UNCHANGED ikVars
    /\ LogStep
    /\ IkSchedule

\* handleLogClick(log, index): a click on entry `index` of the log in the
\* console selects it and, outside playback and transitions, installs its
\* Pose and Proportions when it has them.
LogClick(index) ==
    LET log == recordingHistory[index + 1]
        acts == log.pivotOffsets # NullPose /\ ~isAnimating /\ ~isTransitioning
    IN  /\ isConsoleVisible
        /\ index \in 0..(Len(recordingHistory) - 1)
        /\ Record("logClick", index, acts, "other")
        /\ pivotOffsets' = IF acts THEN log.pivotOffsets ELSE pivotOffsets
        /\ props' = IF acts /\ log.props # NoProps THEN log.props ELSE props
        /\ UNCHANGED <<selectedKeyframeIndex, playbackVars, transitionVars, dragVars,
                       historyVars, configVars>>
        /\ Commit(keyframes)
        /\ UNCHANGED ikVars
        /\ LogStep
        /\ IkSchedule

\* Variant: a Delete key that also installs the deleted entry's Pose.
KeyDownDelete_installs ==
    /\ selectedLogIndex # NoIndex
    /\ Record("keyDownDelete", selectedLogIndex, TRUE, "other")
    /\ pivotOffsets' = IF selectedLogIndex \in 0..(Len(recordingHistory) - 1)
                          /\ recordingHistory[selectedLogIndex + 1].pivotOffsets # NullPose
                       THEN recordingHistory[selectedLogIndex + 1].pivotOffsets
                       ELSE pivotOffsets
    /\ UNCHANGED <<props, selectedKeyframeIndex, playbackVars, transitionVars,
                   dragVars, historyVars, configVars>>
    /\ Commit(keyframes)
    /\ UNCHANGED ikVars
    /\ LogStep
    /\ IkSchedule

\* handleKeyDown, Delete or Backspace outside a text field while a log entry
\* is selected: filters the entry out of the log, clears the selection and
\* calls addLog.  When the selection points past the end of the log the
\* handler throws at deletedLog.label, after the two state updates and
\* before addLog.
KeyDownDelete ==
    /\ selectedLogIndex # NoIndex
    /\ Record("keyDownDelete", selectedLogIndex, TRUE, "other")
    /\ UNCHANGED <<pivotOffsets, props, selectedKeyframeIndex, playbackVars,
                   transitionVars, dragVars, historyVars, configVars>>
    /\ Commit(keyframes)
    /\ UNCHANGED ikVars
    /\ LogStep
    /\ IkSchedule

\* clearHistory: the CLEAR button of the log
ClearHistory ==
    /\ isConsoleVisible
    /\ Record("clearHistory", NoIndex, TRUE, "other")
    /\ UNCHANGED <<pivotOffsets, props, selectedKeyframeIndex, playbackVars,
                   transitionVars, dragVars, historyVars, configVars>>
    /\ Commit(keyframes)
    /\ UNCHANGED ikVars
    /\ LogStep
    /\ IkSchedule

\* exportRecordingJSON: the export button of the log
ExportRecordingJSON ==
    /\ isConsoleVisible
    /\ Record("exportRecordingJSON", NoIndex, TRUE, "other")
    /\ UNCHANGED <<pivotOffsets, props, selectedKeyframeIndex, playbackVars,
                   transitionVars, dragVars, historyVars, configVars>>
    /\ Commit(keyframes)
    /\ UNCHANGED ikVars
    /\ LogStep
    /\ IkSchedule

\* The motion style buttons of the performance tab
SetMotionStyle(style) ==
    /\ isConsoleVisible
    /\ Record("setMotionStyle", NoIndex, TRUE, "other")
    /\ motionStyle' = style
    /\ UNCHANGED <<pivotOffsets, props, selectedKeyframeIndex, playbackVars,
                   transitionVars, dragVars, historyVars, predictiveGhostingEnabled,
                   jointChainBehaviors>>
    /\ Commit(keyframes)
    /\ UNCHANGED ikVars
    /\ LogStep
    /\ IkSchedule

\* The console button of the stage, disabled until the figure is calibrated
ToggleConsole ==
    /\ isCalibrated
    /\ Record("toggleConsole", NoIndex, TRUE, "other")
    /\ isConsoleVisible' = ~isConsoleVisible
    /\ UNCHANGED <<pivotOffsets, props, selectedKeyframeIndex, playbackVars,
                   isTransitioning, transition, jitterLoop, isCalibrated, isCalibrating,
                   dragVars,
                   historyVars, configVars>>
    /\ Commit(keyframes)
    /\ UNCHANGED ikVars
    /\ LogStep
    /\ IkSchedule

(***************************************************************************)
(* Joint drags                                                             *)
(***************************************************************************)
\* Variant: startDrag without the call of saveToHistory().
StartDrag_noSave(key) ==
    LET acts == ~(~isCalibrated \/ isAnimating \/ isTransitioning)
    IN  /\ Record("startDrag", NoIndex, acts, "edit")
        /\ selectedKeyframeIndex' = NoIndex
        /\ IF acts
           THEN /\ previewPivotOffsets' =
                       IF predictiveGhostingEnabled THEN pivotOffsets
                       ELSE previewPivotOffsets
                /\ draggingBoneKeyRef' = key
           ELSE UNCHANGED <<previewPivotOffsets, draggingBoneKeyRef>>
        /\ UNCHANGED <<pivotOffsets, props, playbackVars, transitionVars,
                       isSliderDraggingRef, isInteractingRef, configVars, historyVars>>
        /\ Commit(keyframes)
        /\ UNCHANGED ikVars
        /\ LogStep
        /\ IkSchedule

\* onAnchorMouseDown(k) / handleBodyMouseDown(k) without shift: the keyframe
\* selection is dropped, then startDrag(k, clientX).
StartDrag(key) ==
    LET acts == ~(~isCalibrated \/ isAnimating \/ isTransitioning)
    IN  /\ Record("startDrag", NoIndex, acts, "edit")
        /\ selectedKeyframeIndex' = NoIndex
        /\ IF acts
           THEN /\ SaveToHistory
                /\ previewPivotOffsets' =
                       IF predictiveGhostingEnabled THEN pivotOffsets
                       ELSE previewPivotOffsets
                /\ draggingBoneKeyRef' = key
           ELSE UNCHANGED <<historyVars, previewPivotOffsets, draggingBoneKeyRef>>
        /\ UNCHANGED <<pivotOffsets, props, playbackVars, transitionVars,
                       isSliderDraggingRef, isInteractingRef, configVars>>
        /\ Commit(keyframes)
        /\ UNCHANGED ikVars
        /\ LogStep
        /\ IkSchedule

\* handleInteractionMove, for a joint without the lead flag: the dragged
\* joint moves by dragDelta = (clientX - lastClientX) * frictionFactor and the
\* delta is propagated; the result goes to the shadow Pose with ghosting, to
\* the committed Pose without.
\* Variant: the result of a move always goes to the committed Pose.
updatePoseState_committed(ghosting, preview, committed, newState) ==
    [previewPivotOffsets |-> preview, pivotOffsets |-> newState]

\* updatePoseState(newState) of handleInteractionMove and updateFunc of
\* handlePivotChange: the Pose that a move writes, the shadow Pose with
\* ghosting and the committed Pose without.
updatePoseState(ghosting, preview, committed, newState) ==
    [previewPivotOffsets |-> IF ghosting THEN newState ELSE preview,
     pivotOffsets |-> IF ghosting THEN committed ELSE newState]

DragMovePose(baseOffsets, boneKey, dragDelta, behaviors) ==
    applyChainReaction(boneKey, dragDelta,
                       [baseOffsets EXCEPT ![boneKey] = @ + dragDelta], behaviors)

InteractionMove(dragDelta) ==
    LET acts == ~(isSliderDraggingRef \/ ~isCalibrated \/ isAnimating \/ isTransitioning
                  \/ draggingBoneKeyRef = "none")
        baseOffsets == IF predictiveGhostingEnabled /\ previewPivotOffsets # NullPose
                       THEN previewPivotOffsets ELSE pivotOffsets
        moved == DragMovePose(baseOffsets, draggingBoneKeyRef, dragDelta,
                              jointChainBehaviors)
    IN  /\ draggingBoneKeyRef # "none"
        /\ ~jointChainBehaviors[draggingBoneKeyRef].l
        /\ Record("interactionMove", NoIndex, acts, "other")
        /\ IF acts
           THEN /\ isInteractingRef' = TRUE
                /\ selectedKeyframeIndex' = NoIndex
                /\ previewPivotOffsets' =
                       updatePoseState(predictiveGhostingEnabled, previewPivotOffsets,
                                       pivotOffsets, moved).previewPivotOffsets
                /\ pivotOffsets' =
                       updatePoseState(predictiveGhostingEnabled, previewPivotOffsets,
                                       pivotOffsets, moved).pivotOffsets
           ELSE UNCHANGED <<isInteractingRef, selectedKeyframeIndex, previewPivotOffsets,
                            pivotOffsets>>
        /\ UNCHANGED <<props, playbackVars, transitionVars, draggingBoneKeyRef,
                       isSliderDraggingRef, historyVars, configVars>>
        /\ Commit(keyframes)
        /\ UNCHANGED ikVars
        /\ LogStep
        /\ IkSchedule

\* handleInteractionMove: the Pose a move of a joint with the lead flag
\* computes.  With an entry for the joint in JOINT_PARENT_MAP and the
\* parent's part reported by the Renderer the parent is set to
\* newParentRot = angle - 90 - grandParentRot, an angle that the cursor
\* position decides, and the change is propagated from the parent; with an
\* entry and no report the Pose stays; without an entry the joint itself is
\* rotated by dragDelta as a joint without the flag is.
LeadMovePose(baseOffsets, boneKey, dragDelta, newParentRot, behaviors, positions) ==
    IF boneKey \in DOMAIN JOINT_PARENT_MAP
    THEN LET parentKey == JOINT_PARENT_MAP[boneKey]
         IN  IF positions # NoPositions
             THEN applyChainReaction(parentKey, newParentRot - baseOffsets[parentKey],
                                     [baseOffsets EXCEPT ![parentKey] = newParentRot],
                                     behaviors)
             ELSE baseOffsets
    ELSE DragMovePose(baseOffsets, boneKey, dragDelta, behaviors)

\* handleInteractionMove, for a joint with the lead flag
LeadMove(dragDelta, newParentRot) ==
    LET acts == ~(isSliderDraggingRef \/ ~isCalibrated \/ isAnimating \/ isTransitioning
                  \/ draggingBoneKeyRef = "none")
        baseOffsets == IF predictiveGhostingEnabled /\ previewPivotOffsets # NullPose
                       THEN previewPivotOffsets ELSE pivotOffsets
        moved == LeadMovePose(baseOffsets, draggingBoneKeyRef, dragDelta, newParentRot,
                              jointChainBehaviors, allJointPositions)
    IN  /\ draggingBoneKeyRef # "none"
        /\ jointChainBehaviors[draggingBoneKeyRef].l
        /\ Record("interactionMove", NoIndex, acts, "other")
        /\ IF acts
           THEN /\ isInteractingRef' = TRUE
                /\ selectedKeyframeIndex' = NoIndex
                /\ previewPivotOffsets' =
                       updatePoseState(predictiveGhostingEnabled, previewPivotOffsets,
                                       pivotOffsets, moved).previewPivotOffsets
                /\ pivotOffsets' =
                       updatePoseState(predictiveGhostingEnabled, previewPivotOffsets,
                                       pivotOffsets, moved).pivotOffsets
           ELSE UNCHANGED <<isInteractingRef, selectedKeyframeIndex, previewPivotOffsets,
                            pivotOffsets>>
        /\ UNCHANGED <<props, playbackVars, transitionVars, draggingBoneKeyRef,
                       isSliderDraggingRef, historyVars, configVars>>
        /\ Commit(keyframes)
        /\ UNCHANGED ikVars
        /\ LogStep
        /\ IkSchedule

\* handleTogglePin(boneKey): removes the pin of a pinned joint; pins a joint
\* whose part the Renderer has reported.
handleTogglePin(pins, boneKey, positions) ==
    IF boneKey \in pins THEN pins \ {boneKey}
    ELSE IF positions # NoPositions THEN pins \cup {boneKey}
    ELSE pins

\* The joints whose part name includes 'foot' or 'toe'.
FloorJoints == {"l_foot", "r_foot", "l_toe", "r_toe"}

\* onAnchorMouseDown with the shift key: a shift-click on a bone of the figure
\* clears the keyframe selection and toggles the bone's pin.
TogglePin(boneKey) ==
    /\ Record("togglePin", NoIndex, TRUE, "other")
    /\ activePins' = handleTogglePin(activePins, boneKey, allJointPositions)
    /\ selectedKeyframeIndex' = NoIndex
    /\ UNCHANGED <<pivotOffsets, props, playbackVars, transitionVars, dragVars,
                   historyVars, configVars, allJointPositions, ikCall>>
    /\ Commit(keyframes)
    /\ LogStep
    /\ IkSchedule

\* onPositionsUpdate={setAllJointPositions}: the Renderer reports the world
\* position and rotation of every part.
PositionsUpdate(rotations) ==
    /\ Record("positionsUpdate", NoIndex, TRUE, "other")
    /\ allJointPositions' = rotations
    /\ UNCHANGED <<pivotOffsets, props, selectedKeyframeIndex, playbackVars,
                   transitionVars, dragVars, historyVars, configVars, activePins, ikCall>>
    /\ Commit(keyframes)
    /\ LogStep
    /\ IkSchedule

\* allJointPositions[PIVOT_TO_PART_MAP[JOINT_PARENT_MAP[key]]]?.rotation || 0:
\* the rotation reported for the part of the joint's parent, 0 when
\* JOINT_PARENT_MAP has no entry for the joint.
ParentRotation(key, positions) ==
    IF key \in DOMAIN JOINT_PARENT_MAP THEN positions[JOINT_PARENT_MAP[key]] ELSE 0

\* The IK effect: runs after a render in which one of its dependencies
\* changed, with a shadow Pose and pins.  For every pinned foot
\* it calls solveTwoBoneIK(target, hipPos, thighLen, calfLen, parentAngle,
\* isLeft) and writes the angles it returns, if any, to the hip and the
\* knee of the shadow Pose.
IKEffect(ikResult) ==
    LET feet == {k \in activePins : k \in {"l_foot", "r_foot"}}
        hipOf(k) == IF k = "l_foot" THEN "l_hip" ELSE "r_hip"
        kneeOf(k) == IF k = "l_foot" THEN "l_knee" ELSE "r_knee"
        solved == ikResult # NoIkResult /\ feet # {}
    IN  /\ ikPending
        /\ previewPivotOffsets # NullPose
        /\ activePins # {}
        /\ allJointPositions # NoPositions
        /\ Record("ikEffect", NoIndex, solved, "other")
        /\ ikCall' = {[hipKey |-> hipOf(k),
                       parentAngle |-> ParentRotation(hipOf(k), allJointPositions)] :
                          k \in feet}
        /\ previewPivotOffsets' =
               IF solved
               THEN [j \in JOINT_KEYS |->
                        IF \E k \in feet : j = hipOf(k) THEN ikResult.angle1
                        ELSE IF \E k \in feet : j = kneeOf(k) THEN ikResult.angle2
                        ELSE previewPivotOffsets[j]]
               ELSE previewPivotOffsets
        /\ UNCHANGED <<pivotOffsets, props, selectedKeyframeIndex, playbackVars,
                       transitionVars, draggingBoneKeyRef, isSliderDraggingRef,
                       isInteractingRef, historyVars, configVars, allJointPositions,
                       activePins>>
        /\ Commit(keyframes)
        /\ LogStep
        /\ IkSchedule

\* handleInteractionEnd (mouseup / touchend anywhere, and onMouseUp of a
\* joint slider).  With ghosting and a shadow Pose the release starts the
\* transition that promotes it.  The release of a foot or a toe that the
\* Renderer reported within 10 units of the floor toggles its pin; whether
\* it is that near is the Renderer's.
InteractionEnd ==
    LET promote == predictiveGhostingEnabled /\ draggingBoneKeyRef # "none"
                   /\ previewPivotOffsets # NullPose
    IN  /\ Record("interactionEnd", NoIndex, promote, "other")
        /\ isSliderDraggingRef' = FALSE
        /\ draggingBoneKeyRef' = "none"
        /\ isInteractingRef' = FALSE
        /\ previewPivotOffsets' =
               IF predictiveGhostingEnabled THEN NullPose ELSE previewPivotOffsets
        /\ IF promote
           THEN StartTransition(previewPivotOffsets, "drag")
           ELSE UNCHANGED <<isTransitioning, transition, jitterLoop>>
        /\ UNCHANGED <<pivotOffsets, props, selectedKeyframeIndex, playbackVars,
                       isCalibrated, isCalibrating, isConsoleVisible, historyVars,
                       configVars>>
        /\ Commit(keyframes)
        /\ activePins' \in
               IF draggingBoneKeyRef \in FloorJoints /\ allJointPositions # NoPositions
               THEN {activePins, handleTogglePin(activePins, draggingBoneKeyRef,
                                                 allJointPositions)}
               ELSE {activePins}
        /\ UNCHANGED <<allJointPositions, ikCall>>
        /\ LogStep
        /\ IkSchedule

\* handleChainBehaviorToggle(key, mode): the B, S and L buttons of a joint in
\* the FK tab.  B switches the bend factor between unset and 1, S the
\* stretch factor between unset and -1, L flips the lead flag.
ChainBehaviorToggle(key, mode) ==
    LET keyBehaviors == jointChainBehaviors[key]
        newModes ==
            IF mode = "b"
            THEN [keyBehaviors EXCEPT !.b = IF keyBehaviors.b # 0 THEN 0 ELSE 1]
            ELSE IF mode = "s"
            THEN [keyBehaviors EXCEPT !.s = IF keyBehaviors.s # 0 THEN 0 ELSE -1]
            ELSE [keyBehaviors EXCEPT !.l = ~keyBehaviors.l]
    IN  /\ isConsoleVisible
        /\ Record("chainBehaviorToggle", NoIndex, TRUE, "other")
        /\ jointChainBehaviors' = [jointChainBehaviors EXCEPT ![key] = newModes]
        /\ UNCHANGED <<pivotOffsets, props, selectedKeyframeIndex, playbackVars,
                       transitionVars, dragVars, historyVars, predictiveGhostingEnabled,
                       motionStyle>>
        /\ Commit(keyframes)
        /\ UNCHANGED ikVars
        /\ LogStep
        /\ IkSchedule

\* handleChainBehaviorValueChange(key, mode, value): the number field next to
\* B or S, enabled while that factor is active.
ChainBehaviorValueChange(key, mode, numValue) ==
    /\ isConsoleVisible
    /\ IF mode = "b" THEN jointChainBehaviors[key].b # 0 ELSE jointChainBehaviors[key].s # 0
    /\ Record("chainBehaviorValueChange", NoIndex, TRUE, "other")
    /\ jointChainBehaviors' =
           IF mode = "b"
           THEN [jointChainBehaviors EXCEPT ![key].b = numValue]
           ELSE [jointChainBehaviors EXCEPT ![key].s = numValue]
    /\ UNCHANGED <<pivotOffsets, props, selectedKeyframeIndex, playbackVars,
                   transitionVars, dragVars, historyVars, predictiveGhostingEnabled,
                   motionStyle>>
    /\ Commit(keyframes)
    /\ UNCHANGED ikVars
    /\ LogStep
    /\ IkSchedule

\* A joint slider of the FK tab: onMouseDown.  The slider is disabled during
\* playback and transitions.
SliderDown(key) ==
    /\ ~(isAnimating \/ isTransitioning)
    /\ isConsoleVisible
    /\ Record("sliderDown", NoIndex, TRUE, "edit")
    /\ SaveToHistory
    /\ isSliderDraggingRef' = TRUE
    /\ draggingBoneKeyRef' = key
    /\ previewPivotOffsets' =
           IF predictiveGhostingEnabled THEN pivotOffsets ELSE previewPivotOffsets
    /\ selectedKeyframeIndex' = NoIndex
    /\ UNCHANGED <<pivotOffsets, props, playbackVars, transitionVars, isInteractingRef,
                   configVars>>
    /\ Commit(keyframes)
    /\ UNCHANGED ikVars
    /\ LogStep
    /\ IkSchedule

\* handlePivotChange(key, newValue): onChange of a joint slider
PivotChangePose(baseOffsets, key, newValue, behaviors) ==
    applyChainReaction(key, newValue - baseOffsets[key],
                       [baseOffsets EXCEPT ![key] = newValue], behaviors)

PivotChange(key, newValue) ==
    /\ ~(isAnimating \/ isTransitioning)
    /\ isConsoleVisible
    /\ Record("pivotChange", NoIndex, TRUE, "other")
    /\ LET baseOffsets == IF predictiveGhostingEnabled /\ previewPivotOffsets # NullPose
                          THEN previewPivotOffsets ELSE pivotOffsets
           newOffsets == PivotChangePose(baseOffsets, key, newValue, jointChainBehaviors)
       IN  /\ previewPivotOffsets' =
                  updatePoseState(predictiveGhostingEnabled, previewPivotOffsets,
                                  pivotOffsets, newOffsets).previewPivotOffsets
           /\ pivotOffsets' =
                  updatePoseState(predictiveGhostingEnabled, previewPivotOffsets,
                                  pivotOffsets, newOffsets).pivotOffsets
    /\ UNCHANGED <<props, selectedKeyframeIndex, playbackVars, transitionVars,
                   draggingBoneKeyRef, isSliderDraggingRef, isInteractingRef,
                   historyVars, configVars>>
    /\ Commit(keyframes)
    /\ UNCHANGED ikVars
    /\ LogStep
    /\ IkSchedule

(***************************************************************************)
(* Inputs                                                                  *)
(***************************************************************************)
ScrubTimes == {1000}
TickDeltas == {1000}
DragJoints == {"l_elbow"}
DragDeltas == {10}
PropValues == {150}
TimelineScrubTimes == {30, 60}
TimelineRawTimes == {50, 2500}
SeekRawTimes == {50}

ChainToggles == {<<"l_shoulder", "b">>, <<"l_elbow", "b">>, <<"l_elbow", "s">>,
                 <<"l_hand", "b">>}
ChainValueJoints == {"l_hand"}
ChainStartJoints == {"collar", "l_shoulder"}
ChainDeltas == {5, -5}
ChainFactors == {2}

GhostSliderValues == {7}
GhostStyles == {"standard", "clockwork"}
JitterJoints == {"l_elbow"}
JitterOffsets == {-1, 1}
LogCycles == {0, 48}
PinJoints == {"l_foot", "r_foot"}
RendererReports ==
    {[k \in JOINT_KEYS |-> 0],
     [k \in JOINT_KEYS |-> IF k = "waist" THEN 30 ELSE IF k = "torso" THEN 45 ELSE 0]}
LogClickIndices == {0, 2}

\* The ends of the timeline track: updateScrubTime clamps the pointer to
\* percentage 0 and percentage 1 of totalDuration.
TrackEnds(kfs) == {0, totalDuration(kfs)}
LeadToggles == {<<"l_shoulder", "l">>, <<"l_elbow", "l">>, <<"l_elbow", "b">>}
LeadJoints == {"l_shoulder", "l_elbow"}
LeadDeltas == {5}
DragUndoDeltas == {-10, 5, 10}
LeadAngles == {-5, 5}
LeadReports == {[k \in JOINT_KEYS |-> 0]}

\* The poses a drag or a slider of SpecGhost can be released with.
GhostPoses ==
    {[T_POSE EXCEPT !["l_elbow"] = v] : v \in (0 - MaxDragAngle - 1)..(MaxDragAngle + 1)}

\* A chain drag keeps every joint within MaxDragAngle degrees of the rest
\* angle.
ChainWithinBound(dragDelta) ==
    LET baseOffsets == IF predictiveGhostingEnabled /\ previewPivotOffsets # NullPose
                       THEN previewPivotOffsets ELSE pivotOffsets
    IN  /\ draggingBoneKeyRef # "none"
        /\ \A k \in JOINT_KEYS :
               DragMovePose(baseOffsets, draggingBoneKeyRef, dragDelta,
                            jointChainBehaviors)[k] \in (0 - MaxDragAngle)..MaxDragAngle

\* A drag of a joint with the lead flag keeps every joint within
\* MaxDragAngle degrees of the rest angle.
LeadWithinBound(dragDelta, newParentRot) ==
    LET baseOffsets == IF predictiveGhostingEnabled /\ previewPivotOffsets # NullPose
                       THEN previewPivotOffsets ELSE pivotOffsets
    IN  /\ draggingBoneKeyRef # "none"
        /\ \A k \in JOINT_KEYS :
               LeadMovePose(baseOffsets, draggingBoneKeyRef, dragDelta, newParentRot,
                            jointChainBehaviors, allJointPositions)[k]
                   \in (0 - MaxDragAngle)..MaxDragAngle

\* A drag stays within MaxDragAngle degrees of the rest angle.
DragWithinBound(dragDelta) ==
    LET baseOffsets == IF predictiveGhostingEnabled /\ previewPivotOffsets # NullPose
                       THEN previewPivotOffsets ELSE pivotOffsets
    IN  /\ draggingBoneKeyRef # "none"
        /\ baseOffsets[draggingBoneKeyRef] + dragDelta \in (0 - MaxDragAngle)..MaxDragAngle

(***************************************************************************)
(* Specifications                                                          *)
(***************************************************************************)
\* Spec: playback and the timeline; undo and redo move the committed Pose
\* between the initial pose and the T-pose.
Next ==
    \/ (Len(history) < MaxUndoDepth /\ StartCalibration)
    \/ \E n \in 1..2 : TransitionFrame(n, 2)
    \/ (Len(keyframes) < MaxKeyframes /\ AddKeyframe)
    \/ \E i \in 0..(MaxKeyframes - 1) : SelectKeyframe(i)
    \/ \E t \in ScrubTimes : Scrub(t)
    \/ FullAnimationReset
    \/ Play
    \/ Pause
    \/ \E d \in TickDeltas : Tick(d)
    \/ Undo
    \/ Redo

Spec == Init /\ [][Next]_vars

\* SpecDrag: playback next to joint drags and the transitions they start.
NextDrag ==
    \/ StartCalibration
    \/ \E n \in 1..2 : TransitionFrame(n, 2)
    \/ (Len(keyframes) < MaxKeyframes /\ AddKeyframe)
    \/ Play
    \/ Pause
    \/ \E d \in TickDeltas : Tick(d)
    \/ \E k \in DragJoints : (Len(history) < MaxUndoDepth /\ StartDrag(k))
    \/ \E d \in DragDeltas : (DragWithinBound(d) /\ InteractionMove(d))
    \/ InteractionEnd

SpecDrag == Init /\ [][NextDrag]_vars

\* SpecTimeline: the handlers that change the keyframe list, once the
\* calibration has opened the console.
NextTimeline ==
    \/ StartCalibration
    \/ TransitionFrame(2, 2)
    \/ (Len(keyframes) < MaxTimelineKeyframes /\ AddKeyframe)
    \/ (Len(keyframes) < MaxTimelineKeyframes /\ AddTweenFrame)
    \/ \E i \in 0..(MaxTimelineKeyframes - 1), t \in TimelineRawTimes : DragKeyframe(i, t)
    \/ \E t \in TimelineScrubTimes : Scrub(t)
    \/ FullAnimationReset

SpecTimeline == Init /\ [][NextTimeline]_vars

\* SpecSeek: playback started from a playhead that the timeline handlers
\* have placed: keyframe selection seeks to the keyframe's stored time.
NextSeek ==
    \/ StartCalibration
    \/ TransitionFrame(2, 2)
    \/ (Len(keyframes) < MaxTimelineKeyframes /\ AddKeyframe)
    \/ (Len(keyframes) < MaxTimelineKeyframes /\ AddTweenFrame)
    \/ \E i \in 0..(MaxTimelineKeyframes - 1), t \in SeekRawTimes : DragKeyframe(i, t)
    \/ \E i \in 0..(MaxTimelineKeyframes - 1) : SelectKeyframe(i)
    \/ Play
    \/ Pause
    \/ \E d \in TickDeltas : Tick(d)

SpecSeek == Init /\ [][NextSeek]_vars

\* SpecPlayhead: the playhead under playback, scrubs to the ends of the
\* track, keyframe selection, new keyframes and keyframe-time edits.
NextPlayhead ==
    \/ StartCalibration
    \/ TransitionFrame(2, 2)
    \/ (Len(keyframes) < MaxKeyframes /\ AddKeyframe)
    \/ (Len(keyframes) < MaxKeyframes /\ AddTweenFrame)
    \/ \E i \in 0..(MaxKeyframes - 1), t \in SeekRawTimes : DragKeyframe(i, t)
    \/ \E i \in 0..(MaxKeyframes - 1) : SelectKeyframe(i)
    \/ \E t \in TrackEnds(keyframes) : Scrub(t)
    \/ Play
    \/ Pause
    \/ \E d \in TickDeltas : Tick(d)

SpecPlayhead == Init /\ [][NextPlayhead]_vars

\* SpecChain: joint drags under the coupling configurations that the B and S
\* controls of the FK tab set up.  The controls are used between drags.
NextChain ==
    \/ StartCalibration
    \/ TransitionFrame(2, 2)
    \/ \E t \in ChainToggles :
           (draggingBoneKeyRef = "none" /\ ChainBehaviorToggle(t[1], t[2]))
    \/ \E k \in ChainValueJoints, v \in ChainFactors :
           (draggingBoneKeyRef = "none" /\ ChainBehaviorValueChange(k, "b", v))
    \/ \E k \in ChainStartJoints : (Len(history) < MaxUndoDepth /\ StartDrag(k))
    \/ \E d \in ChainDeltas : (ChainWithinBound(d) /\ InteractionMove(d))
    \/ InteractionEnd

SpecChain == Init /\ [][NextChain]_vars

\* SpecGhost: drags and slider interactions with and without ghosting, the
\* transition that promotes the shadow Pose on release, in the standard and
\* the clockwork motion style.  A slider value changes while the slider is
\* held.
NextGhost ==
    \/ StartCalibration
    \/ \E n \in 1..2 : TransitionFrame(n, 2)
    \/ \E j \in JitterOffsets : JitterFrame(JitterJoints, j)
    \/ \E style \in GhostStyles : SetMotionStyle(style)
    \/ \E k \in DragJoints : (Len(history) < MaxGhostEdits /\ StartDrag(k))
    \/ \E d \in DragDeltas : (DragWithinBound(d) /\ InteractionMove(d))
    \/ \E k \in DragJoints : (Len(history) < MaxGhostEdits /\ SliderDown(k))
    \/ \E v \in GhostSliderValues :
           (isSliderDraggingRef /\ PivotChange(draggingBoneKeyRef, v))
    \/ InteractionEnd
    \/ (Len(history) < MaxGhostEdits /\ ToggleGhosting)

SpecGhost == Init /\ [][NextGhost]_vars

\* SpecDragUndo: drags with and without ghosting, each followed to the end
\* of its transition, and the undo after a released drag.  Ghosting is
\* switched between drags.
NextDragUndo ==
    \/ StartCalibration
    \/ \E n \in 1..2 : TransitionFrame(n, 2)
    \/ (Len(history) < MaxGhostEdits /\ dragRun.phase = "none" /\ ToggleGhosting)
    \/ \E k \in DragJoints : (Len(history) < MaxGhostEdits /\ StartDrag(k))
    \/ \E d \in DragUndoDeltas : (DragWithinBound(d) /\ InteractionMove(d))
    \/ InteractionEnd
    \/ (dragRun.phase = "released" /\ Undo)

SpecDragUndo == Init /\ [][NextDragUndo]_vars

\* SpecIK: pins and the IK effect during a drag.
NextIK ==
    \/ StartCalibration
    \/ TransitionFrame(2, 2)
    \/ \E r \in RendererReports : PositionsUpdate(r)
    \/ \E k \in PinJoints : TogglePin(k)
    \/ \E k \in DragJoints : (Len(history) < MaxUndoDepth /\ StartDrag(k))
    \/ InteractionEnd
    \/ \E res \in IkResults : IKEffect(res)

SpecIK == Init /\ [][NextIK]_vars

\* SpecIKLive: SpecIK with the solver's result fixed by its inputs and with
\* the IK effect run whenever it is scheduled (React runs a scheduled effect
\* after the render).
NextIKLive ==
    \/ StartCalibration
    \/ TransitionFrame(2, 2)
    \/ \E r \in RendererReports : PositionsUpdate(r)
    \/ \E k \in PinJoints : TogglePin(k)
    \/ \E k \in DragJoints : (Len(history) < MaxUndoDepth /\ StartDrag(k))
    \/ InteractionEnd
    \/ IKEffect(ikSolution)

SpecIKLive == Init /\ [][NextIKLive]_vars /\ WF_vars(IKEffect(ikSolution))

\* SpecLead: drags of joints with and without the lead flag.  The L and B
\* controls of the FK tab are used between drags.
NextLead ==
    \/ StartCalibration
    \/ TransitionFrame(2, 2)
    \/ \E r \in LeadReports : (allJointPositions = NoPositions /\ PositionsUpdate(r))
    \/ \E t \in LeadToggles :
           (draggingBoneKeyRef = "none" /\ ChainBehaviorToggle(t[1], t[2]))
    \/ \E k \in LeadJoints : (Len(history) < MaxUndoDepth /\ StartDrag(k))
    \/ \E d \in LeadDeltas : (ChainWithinBound(d) /\ InteractionMove(d))
    \/ \E d \in LeadDeltas, a \in LeadAngles : (LeadWithinBound(d, a) /\ LeadMove(d, a))
    \/ InteractionEnd

SpecLead == Init /\ [][NextLead]_vars

\* SpecLog: the recording log.  The behaviours start after the calibration
\* and a number of press-and-release gestures on a joint, each of which adds
\* an entry to the undo stack and the snapshots START_DRAG and END_DRAG to
\* the log.
PressedAndReleased(n) ==
    [history |->
         LastN(<<Snapshot(INITIAL_CHALLENGE_POSE, ATOMIC_PROPS)>>
                   \o [i \in 1..n |-> Snapshot(T_POSE, ATOMIC_PROPS)],
               HISTORY_KEEP + 1),
     log |->
         addLog(recordSnapshot(
                    addLog(recordSnapshot(<<>>, INITIAL_CHALLENGE_POSE, ATOMIC_PROPS,
                                          "CALIBRATION_START"),
                           "SEQUENCE: CALIBRATION START..."),
                    INITIAL_CHALLENGE_POSE, ATOMIC_PROPS, "CALIBRATION_END"),
                "SEQUENCE: SYSTEM ALIGNED.")
             \o [i \in 1..(2 * n) |->
                     LogEntry(T_POSE, ATOMIC_PROPS,
                              IF i % 2 = 1 THEN "START_DRAG" ELSE "END_DRAG")]]

InitLog ==
    /\ pivotOffsets = T_POSE
    /\ props = ATOMIC_PROPS
    /\ keyframes = <<>>
    /\ selectedKeyframeIndex = NoIndex
    /\ isAnimating = FALSE
    /\ animationTime = 0
    /\ lastTimestampNull = TRUE
    /\ isTransitioning = FALSE
    /\ transition = NoTransition
    /\ jitterLoop = NoJitter
    /\ motionStyle = "standard"
    /\ previewPivotOffsets = NullPose
    /\ predictiveGhostingEnabled = TRUE
    /\ draggingBoneKeyRef = "none"
    /\ isSliderDraggingRef = FALSE
    /\ isInteractingRef = FALSE
    /\ isCalibrated = TRUE
    /\ isCalibrating = FALSE
    /\ isConsoleVisible = TRUE
    /\ \E n \in LogCycles :
           /\ history = PressedAndReleased(n).history
           /\ recordingHistory = PressedAndReleased(n).log
    /\ redoStack = <<>>
    /\ jointChainBehaviors = NoBehaviors
    /\ lastOp = Op("init", NoIndex, FALSE)
    /\ opSeq = ""
    /\ tickedSincePlay = FALSE
    /\ preUndo = NoSnapshot
    /\ heldDrag = NoHeldDrag
    /\ dragRun = NoDragRun
    /\ selectedLogIndex = NoIndex
    /\ logObserved = TRUE
    /\ logOps = 0
    /\ allJointPositions = NoPositions
    /\ activePins = {}
    /\ ikCall = {}
    /\ ikPending = FALSE
    /\ ikSolution = NoIkResult
    /\ ikRunParity = FALSE

LogRoom == logOps < MaxLogOps

NextLog ==
    \/ (LogRoom /\ Undo)
    \/ (LogRoom /\ Redo)
    \/ (LogRoom /\ SetFixedPose(T_POSE))
    \/ \E k \in DragJoints : (LogRoom /\ StartDrag(k))
    \/ \E d \in DragDeltas : (LogRoom /\ DragWithinBound(d) /\ InteractionMove(d))
    \/ (LogRoom /\ InteractionEnd)
    \/ TransitionFrame(2, 2)
    \/ \E i \in LogClickIndices : (LogRoom /\ LogClick(i))
    \/ (LogRoom /\ KeyDownDelete)
    \/ (LogRoom /\ ClearHistory)
    \/ (LogRoom /\ ExportRecordingJSON)

SpecLog == InitLog /\ [][NextLog]_vars

\* SpecGhostLive: drags with ghosting, with animation frames that keep being
\* delivered.  The elapsed time of a running transition grows with every
\* frame, so its last frame comes; a jitter loop runs its frames to the end.
NextGhostLive ==
    \/ StartCalibration
    \/ \E n \in 1..2 : TransitionFrame(n, 2)
    \/ \E j \in JitterOffsets : JitterFrame(JitterJoints, j)
    \/ \E style \in GhostStyles : SetMotionStyle(style)
    \/ \E k \in DragJoints : (Len(history) < MaxGhostEdits /\ StartDrag(k))
    \/ \E d \in DragDeltas : (DragWithinBound(d) /\ InteractionMove(d))
    \/ InteractionEnd

SpecGhostLive ==
    /\ Init
    /\ [][NextGhostLive]_vars
    /\ WF_vars(TransitionFrame(2, 2))
    /\ WF_vars(\E j \in JitterOffsets : JitterFrame(JitterJoints, j))

\* SpecHistory: the history handlers alone, so that the undo stack fills up
\* to its limit.
NextHistory ==
    \/ StartCalibration
    \/ TransitionFrame(2, 2)
    \/ SetFixedPose(T_POSE)
    \/ Undo
    \/ Redo

SpecHistory == Init /\ [][NextHistory]_vars

\* SpecEdit: the handlers that edit the Pose and the Proportions, with
\* playback and transitions to block them.
NextEdit ==
    \/ (Len(history) < MaxUndoDepth /\ StartCalibration)
    \/ \E n \in 1..2 : TransitionFrame(n, 2)
    \/ ToggleConsole
    \/ (Len(history) < MaxUndoDepth /\ SetFixedPose(T_POSE))
    \/ (Len(history) < MaxUndoDepth /\ ResetProps)
    \/ (Len(history) < MaxUndoDepth /\ PropSliderDown)
    \/ \E v \in PropValues : UpdateProp("torso", "h", v)
    \/ Undo
    \/ Redo
    \/ (Len(keyframes) < MaxKeyframes /\ AddKeyframe)
    \/ Play
    \/ Pause

SpecEdit == Init /\ [][NextEdit]_vars

\* SpecEngine: the two implementations of the timeline's pose resolution, the
\* playback tick (runAnimationLoop) and the scrub (handleScrub), applied to
\* timelines drawn from EngineTimelines.  The state it starts from is the
\* one after calibration with the timeline loaded and the playhead at 0.
EnginePose(lElbow, rElbow) ==
    [T_POSE EXCEPT !["l_elbow"] = lElbow, !["r_elbow"] = rElbow]

\* A keyframe whose easing was set (Keyframe.easing of the source's type).
EasedKeyframe(pose, time, easing) == [pose |-> pose, time |-> time, easing |-> easing]

EngineTimelines ==
    { \* l_elbow 0, 90, 0 at 0, 1000, 2000 ms
      <<Keyframe(EnginePose(0, 0), 0), Keyframe(EnginePose(90, 0), 1000),
        Keyframe(EnginePose(0, 0), 2000)>>,
      \* angles on both sides of the +/-180 and the 0/360 seams
      <<Keyframe(EnginePose(170, 10), 0), Keyframe(EnginePose(-170, 350), 1000)>>,
      \* a last pose that differs from the first, a segment of 1500 ms
      <<Keyframe(EnginePose(30, 0), 0), Keyframe(EnginePose(60, 120), 1500)>>,
      \* a starting keyframe with easing 'ease-out'
      <<EasedKeyframe(EnginePose(0, 0), 0, "ease-out"), Keyframe(EnginePose(80, 0), 1000)>> }

EngineTimes == {0, 500, 1000, 1500, 2000, 2500, 3000}
EngineDeltas == {500}

InitEngine ==
    /\ keyframes \in EngineTimelines
    /\ pivotOffsets = ScrubPose(keyframes, 0)
    /\ props = ATOMIC_PROPS
    /\ selectedKeyframeIndex = NoIndex
    /\ isAnimating = FALSE
    /\ animationTime = 0
    /\ lastTimestampNull = TRUE
    /\ isTransitioning = FALSE
    /\ transition = NoTransition
    /\ jitterLoop = NoJitter
    /\ motionStyle = "standard"
    /\ previewPivotOffsets = NullPose
    /\ predictiveGhostingEnabled = TRUE
    /\ draggingBoneKeyRef = "none"
    /\ isSliderDraggingRef = FALSE
    /\ isInteractingRef = FALSE
    /\ isCalibrated = TRUE
    /\ isCalibrating = FALSE
    /\ isConsoleVisible = TRUE
    /\ history = <<Snapshot(INITIAL_CHALLENGE_POSE, ATOMIC_PROPS)>>
    /\ redoStack = <<>>
    /\ jointChainBehaviors = NoBehaviors
    /\ lastOp = Op("init", NoIndex, FALSE)
    /\ opSeq = ""
    /\ tickedSincePlay = FALSE
    /\ preUndo = NoSnapshot
    /\ heldDrag = NoHeldDrag
    /\ dragRun = NoDragRun
    /\ recordingHistory = <<>>
    /\ selectedLogIndex = NoIndex
    /\ logObserved = FALSE
    /\ logOps = 0
    /\ allJointPositions = NoPositions
    /\ activePins = {}
    /\ ikCall = {}
    /\ ikPending = FALSE
    /\ ikSolution = NoIkResult
    /\ ikRunParity = FALSE

NextEngine ==
    \/ \E t \in EngineTimes : Scrub(t)
    \/ Play
    \/ Pause
    \/ \E d \in EngineDeltas : Tick(d)

SpecEngine == InitEngine /\ [][NextEngine]_vars

(***************************************************************************)
(* Properties                                                              *)
(***************************************************************************)
\* C1: in every state reached by add-keyframe, add-tween-frame and
\* keyframe-time edits, the keyframe list is ordered by non-decreasing
\* time.
C1_KeyframesOrdered ==
    \A i \in 1..(Len(keyframes) - 1) : keyframes[i].time <= keyframes[i + 1].time

\* C2: the time stored by a keyframe-time edit of index i > 0 lies in
\* [keyframes[i-1].time + 100, keyframes[i+1].time - 100], without an upper
\* bound for the last keyframe.
C2_StoredTimeClamped ==
    (lastOp.op = "dragKeyframe" /\ lastOp.index > 0) =>
        LET i == lastOp.index + 1
        IN  /\ keyframes[i].time >= keyframes[i - 1].time + MIN_SEGMENT_DURATION
            /\ (i < Len(keyframes) =>
                    keyframes[i].time <= keyframes[i + 1].time - MIN_SEGMENT_DURATION)

EditOps ==
    {"setFixedPose", "resetProps", "propSliderDown", "toggleGhosting",
     "startCalibration", "startDrag", "sliderDown"}

\* The undo stack holds at most HISTORY_KEEP + 1 snapshots.
HistoryLimit == HISTORY_KEEP + 1

HistoryUnchanged == UNCHANGED <<pivotOffsets, props, history, redoStack>>

\* C4: an enabled undo() immediately followed by redo() restores the Pose
\* and the Proportions committed before the undo, and both stacks.
C4_UndoRedoRoundTrip ==
    opSeq = "undo;redo" =>
        HistoryState(history, redoStack, pivotOffsets, props) = preUndo

\* C4's case: undo and then redo ran, from a state with snapshots on both
\* stacks.
C4_Witness ==
    /\ opSeq = "undo;redo"
    /\ lastOp.acted
    /\ Len(history) >= 1
    /\ Len(redoStack) >= 1

\* C5: a handler that calls saveToHistory() leaves the redo stack empty, and
\* redo() after undo() and such an edit changes neither Pose, Proportions
\* nor either stack.
C5_EditClearsRedo ==
    /\ [](lastOp.op \in EditOps /\ lastOp.acted => redoStack = <<>>)
    /\ [][opSeq = "undo;edit" /\ lastOp'.op = "redo" => HistoryUnchanged]_vars

\* C5's case: undo, an edit and then redo ran.
C5_Witness ==
    /\ opSeq = "undo;edit;redo"
    /\ lastOp.op = "redo"
    /\ Len(history) >= 1

\* C6: the undo stack never holds more than 50 snapshots; saveToHistory on a
\* full stack drops the oldest entry and appends the current state.
C6_UndoStackBounded ==
    /\ [](Len(history) <= HistoryLimit)
    /\ [][lastOp'.op \in EditOps /\ lastOp'.acted =>
              history' = (IF Len(history) = HistoryLimit THEN Tail(history) ELSE history)
                             \o <<Snapshot(pivotOffsets, props)>>]_vars

\* C6's case: a save on a full stack has dropped the first snapshot, the
\* only one that holds the initial pose.
C6_Witness ==
    /\ Len(history) = HistoryLimit
    /\ lastOp.op = "setFixedPose"
    /\ lastOp.acted
    /\ history[1].pivotOffsets = T_POSE

\* C7: undo() and redo() change neither Pose, Proportions nor either stack
\* while playback runs, while a transition runs, or when their stack is
\* empty.
C7_BlockedUndoRedoNoOp ==
    [][\/ /\ lastOp'.op = "undo"
          /\ (isAnimating \/ isTransitioning \/ history = <<>>)
       \/ /\ lastOp'.op = "redo"
          /\ (isAnimating \/ isTransitioning \/ redoStack = <<>>)
       => HistoryUnchanged]_vars

\* C7's case: undo was called during playback with a snapshot on the stack.
C7_Witness ==
    /\ lastOp.op = "undo"
    /\ isAnimating
    /\ history # <<>>

\* C8: the committed Pose has one writer at a time: playback never runs
\* while a pose transition or a drag is in progress.
C8_SingleWriter ==
    isAnimating =>
        /\ ~isTransitioning
        /\ ~transition.running
        /\ draggingBoneKeyRef = "none"

\* C9: right after play() has started playback, no keyframe is selected.
C9_PlayDeselects ==
    (lastOp.op = "play" /\ lastOp.acted) => selectedKeyframeIndex = NoIndex

C11_PlayNeedsTwoKeyframes ==
    /\ [](Len(keyframes) < 2 => ~isAnimating)
    /\ [][(lastOp'.op = "play" /\ Len(keyframes) < 2) =>
              UNCHANGED <<isAnimating, animationTime, pivotOffsets>>]_vars

\* C11's case: play() was called with a single keyframe.
C11_Witness ==
    /\ lastOp.op = "play"
    /\ ~lastOp.acted
    /\ Len(keyframes) = 1

\* C12: reset() leaves the scheduler not playing, animationTime at 0 and the
\* committed Pose at the first keyframe's pose; without keyframes it leaves
\* the committed Pose as it is.
C12_ResetToFirstKeyframe ==
    /\ [](reset(<<>>, pivotOffsets).pivotOffsets = pivotOffsets)
    /\ [][lastOp'.op = "fullReset" =>
              /\ ~isAnimating'
              /\ animationTime' = 0
              /\ pivotOffsets' = keyframes[1].pose]_vars

\* C12's case: reset() was called during playback, after ticks.
C12_Witness ==
    /\ lastOp.op = "fullReset"
    /\ lastOp.acted
    /\ ~lastTimestampNull
    /\ keyframes = <<>>

C14_TickWrapsIntoRange ==
    [][(lastOp'.op = "tick" /\ isAnimating /\ Len(keyframes) >= 2
            /\ totalDuration(keyframes) > 0) =>
           /\ \E d \in {0} \cup TickDeltas \cup EngineDeltas :
                  animationTime' = (animationTime + d) % totalDuration(keyframes)
           /\ 0 <= animationTime'
           /\ animationTime' < totalDuration(keyframes)
           /\ pivotOffsets' = TickPose(keyframes, animationTime')]_vars

\* The time the pose was last resolved at by a tick or a scrub: the stored
\* time reduced modulo the total duration.
ResolvedTime == animationTime % totalDuration(keyframes)

PoseResolved ==
    /\ lastOp.op \in {"tick", "scrub"}
    /\ Len(keyframes) >= 2

\* C15: with linear easing, a query time inside the segment
\* [keyframes[i].time, keyframes[i+1].time) resolves every joint to
\* start + (end - start) * (t - segmentStart) / segmentDuration along the
\* shortest angular path; keyframes at 0, 1000, 2000 with l_elbow 0, 90, 0
\* give l_elbow = 45 at 500.
C15_LinearWithinSegment ==
    PoseResolved =>
        /\ \A i \in 1..(Len(keyframes) - 1) :
               (/\ keyframes[i].time <= ResolvedTime
                /\ ResolvedTime < keyframes[i + 1].time
                /\ EasingOf(keyframes[i]) = "linear") =>
                   \A k \in JOINT_KEYS :
                       pivotOffsets[k] =
                           keyframes[i].pose[k]
                           + (ShortestDiff(keyframes[i].pose[k], keyframes[i + 1].pose[k])
                              * (ResolvedTime - keyframes[i].time))
                             \div (keyframes[i + 1].time - keyframes[i].time)
        /\ (/\ Len(keyframes) = 3
            /\ \A i \in 1..3 : keyframes[i].time = (i - 1) * 1000
            /\ keyframes[1].pose["l_elbow"] = 0
            /\ keyframes[2].pose["l_elbow"] = 90
            /\ keyframes[3].pose["l_elbow"] = 0
            /\ ResolvedTime = 500) => pivotOffsets["l_elbow"] = 45

\* C15's case: a playback tick landed on 500 ms of the timeline 0, 90, 0.
C15_Witness ==
    /\ lastOp.op = "tick"
    /\ Len(keyframes) = 3
    /\ keyframes[2].pose["l_elbow"] = 90
    /\ animationTime = 500
    /\ pivotOffsets["l_elbow"] = 45

\* C16: a query time t with last.time <= t < last.time + 1000 resolves
\* every joint from the last keyframe's pose toward keyframes[0]'s pose with
\* progress (t - last.time) / 1000, and every resolved time yields a full
\* Pose.
C16_LoopClosingSegment ==
    PoseResolved =>
        LET last == keyframes[Len(keyframes)]
        IN  /\ DOMAIN pivotOffsets = JOINT_KEYS
            /\ (/\ last.time <= ResolvedTime
                /\ ResolvedTime < last.time + 1000
                /\ EasingOf(last) = "linear") =>
                   \A k \in JOINT_KEYS :
                       pivotOffsets[k] =
                           last.pose[k]
                           + (ShortestDiff(last.pose[k], keyframes[1].pose[k])
                              * (ResolvedTime - last.time)) \div 1000

\* C16's case: a tick landed halfway between the last keyframe and the end
\* of the loop, with a last pose that differs from the first.
C16_Witness ==
    /\ lastOp.op = "tick"
    /\ Len(keyframes) = 2
    /\ keyframes[1].pose["l_elbow"] = 30
    /\ keyframes[2].pose["l_elbow"] = 60
    /\ animationTime = keyframes[2].time + 500
    /\ pivotOffsets["l_elbow"] = 45

Abs(x) == IF x < 0 THEN 0 - x ELSE x

MoveStep == lastOp'.op = "interactionMove" /\ lastOp'.acted

DragBase ==
    IF predictiveGhostingEnabled /\ previewPivotOffsets # NullPose
    THEN previewPivotOffsets ELSE pivotOffsets

DragResult == IF predictiveGhostingEnabled THEN previewPivotOffsets ELSE pivotOffsets

\* The Pose handed to applyChainReaction for a drag by d: the base with the
\* dragged joint already moved.
PassedPose(d) == [DragBase EXCEPT ![draggingBoneKeyRef] = @ + d]

AllDragDeltas == DragDeltas \cup ChainDeltas

\* C18: in a call of applyChainReaction every joint is written at most once
\* and the start joint is not written: it keeps the value it was passed in
\* with.
C18_EachJointModifiedOnce ==
    [][MoveStep =>
           \E d \in AllDragDeltas :
               LET run == ChainRun(draggingBoneKeyRef, d, PassedPose(d),
                                   jointChainBehaviors)
               IN  /\ DragResult' = run.offsets
                   /\ \A k \in JOINT_KEYS : run.writes[k] <= 1
                   /\ run.writes[draggingBoneKeyRef] = 0
                   /\ DragResult'[draggingBoneKeyRef] = DragBase[draggingBoneKeyRef] + d]_vars

\* C18's case: a drag of the collar moved it and propagated to the left
\* shoulder and on to the left elbow.
C18_Witness ==
    /\ lastOp.op = "interactionMove"
    /\ lastOp.acted
    /\ draggingBoneKeyRef = "collar"
    /\ previewPivotOffsets # NullPose
    /\ previewPivotOffsets["collar"] # 0
    /\ previewPivotOffsets["l_shoulder"] # 0
    /\ previewPivotOffsets["l_elbow"] # 0

\* C19: a joint below the start joint whose bend and stretch factors add up
\* to 0 keeps its base rotation in a propagation, and so does every joint of
\* its subtree.
C19_DecoupledSubtreeUntouched ==
    [][MoveStep =>
           \A k \in Descendants(draggingBoneKeyRef) :
               (jointChainBehaviors[k].b + jointChainBehaviors[k].s = 0) =>
                   \A j \in {k} \cup Descendants(k) : DragResult'[j] = DragBase[j]]_vars

\* C19's case: the left shoulder was dragged while the elbow's factors cancel
\* (bend 1, stretch -1) and the hand below the elbow is coupled.
C19_Witness ==
    /\ lastOp.op = "interactionMove"
    /\ lastOp.acted
    /\ draggingBoneKeyRef = "l_shoulder"
    /\ jointChainBehaviors["l_elbow"].b = 1
    /\ jointChainBehaviors["l_elbow"].s = -1
    /\ jointChainBehaviors["l_hand"].b # 0
    /\ previewPivotOffsets # NullPose
    /\ previewPivotOffsets["l_shoulder"] # 0
    /\ previewPivotOffsets["l_elbow"] = 0
    /\ previewPivotOffsets["l_hand"] = 0

\* C20: applyChainReaction writes into a copy: the Pose it was given is
\* unchanged after the call, and the joints that are not below the start
\* joint have the same value in the result as in the Pose given.
C20_CopyOnWrite ==
    [][MoveStep =>
           \E d \in AllDragDeltas :
               LET run == ChainRun(draggingBoneKeyRef, d, PassedPose(d),
                                   jointChainBehaviors)
               IN  /\ DragResult' = run.offsets
                   /\ run.initialOffsets = PassedPose(d)
                   /\ \A k \in JOINT_KEYS \ Descendants(draggingBoneKeyRef) :
                          DragResult'[k] = PassedPose(d)[k]
                   /\ predictiveGhostingEnabled => pivotOffsets' = pivotOffsets]_vars

\* C20's case: a drag of the left shoulder propagated to the elbow; the Pose
\* stored differs from the committed Pose it was copied from.
C20_Witness ==
    /\ lastOp.op = "interactionMove"
    /\ lastOp.acted
    /\ draggingBoneKeyRef = "l_shoulder"
    /\ previewPivotOffsets # NullPose
    /\ previewPivotOffsets["l_elbow"] # pivotOffsets["l_elbow"]
    /\ previewPivotOffsets["collar"] = pivotOffsets["collar"]
    /\ previewPivotOffsets["r_shoulder"] = pivotOffsets["r_shoulder"]

\* C21: with ghosting enabled, a pointer move of a drag and a value change
\* of a joint slider write the shadow Pose only; the committed Pose is the
\* same after the call as before.
C21_MovesWriteShadowOnly ==
    [][(/\ lastOp'.op \in {"interactionMove", "pivotChange"}
        /\ lastOp'.acted
        /\ predictiveGhostingEnabled) =>
           /\ pivotOffsets' = pivotOffsets
           /\ previewPivotOffsets' # NullPose]_vars

\* C21's case: a drag with ghosting has moved the shadow Pose away from the
\* committed Pose.
C21_Witness ==
    /\ lastOp.op = "interactionMove"
    /\ lastOp.acted
    /\ predictiveGhostingEnabled
    /\ draggingBoneKeyRef # "none"
    /\ previewPivotOffsets # NullPose
    /\ previewPivotOffsets # pivotOffsets

\* C22: after a drag is released without a move, the committed Pose is the
\* one the drag started from and there is no shadow Pose, in every state up
\* to the next user operation.
C22_AbandonedDragLeavesPose ==
    heldDrag.phase = "released" =>
        /\ pivotOffsets = heldDrag.pose
        /\ previewPivotOffsets = NullPose

\* The release of a drag with ghosting that promotes the shadow Pose p.
ReleasedWith(p) ==
    /\ lastOp.op = "interactionEnd"
    /\ lastOp.acted
    /\ transition.running
    /\ transition.targetPose = p

\* C23: after a drag with ghosting is released, the committed Pose
\* eventually equals the shadow Pose as it was at the release, and
\* isTransitioning eventually is false again, when animation frames keep
\* being delivered.
C23_ReleasePromotesShadow ==
    /\ [](lastOp.op = "interactionEnd" /\ lastOp.acted =>
              transition.running /\ transition.targetPose \in GhostPoses)
    /\ \A p \in GhostPoses : ReleasedWith(p) ~> (pivotOffsets = p)
    /\ (lastOp.op = "interactionEnd" /\ lastOp.acted) ~> ~isTransitioning

\* C23's case: a drag that moved the shadow Pose was released, and the
\* transition has brought the committed Pose to it.
C23_Witness ==
    /\ lastOp.op = "transitionFrame"
    /\ ~isTransitioning
    /\ ~jitterLoop.running
    /\ draggingBoneKeyRef = "none"
    /\ previewPivotOffsets = NullPose
    /\ predictiveGhostingEnabled
    /\ pivotOffsets["l_elbow"] = 10

\* C24: the shadow Pose exists only during an interaction: in every state
\* with no drag and no slider interaction in progress previewPivotOffsets is
\* null, also when ghosting was toggled while an interaction was in progress.
C24_ShadowOnlyDuringInteraction ==
    (draggingBoneKeyRef = "none" /\ ~isSliderDraggingRef) =>
        previewPivotOffsets = NullPose

\* C25: deleting an entry of the recording log changes neither the undo
\* stack nor the redo stack, nor the committed Pose or Proportions.
C25_LogDeleteLeavesState ==
    [][lastOp'.op = "keyDownDelete" =>
           /\ history' = history
           /\ redoStack' = redoStack
           /\ pivotOffsets' = pivotOffsets
           /\ props' = props]_vars

\* C25's case: the entry whose Pose was installed by a click has been
\* deleted from the log, and the installed Pose is still the committed one.
C25_Witness ==
    /\ lastOp.op = "keyDownDelete"
    /\ lastOp.index = 0
    /\ selectedLogIndex = NoIndex
    /\ recordingHistory[Len(recordingHistory)].label = "LOG DELETED"
    /\ recordingHistory[1].label # "CALIBRATION_START"
    /\ pivotOffsets = INITIAL_CHALLENGE_POSE
    /\ history # <<>>

\* log is a prefix of later: later keeps every entry of log, unaltered and
\* in place, and may have more at the end.
IsPrefix(log, later) ==
    /\ Len(log) <= Len(later)
    /\ \A i \in 1..Len(log) : Content(later[i]) = Content(log[i])

\* C26: the recording log is append-only: apart from the delete of one
\* entry and the clear, no handler removes, reorders or alters an entry of
\* the log; each only appends at the end.
C26_LogAppendOnly ==
    [][lastOp'.op \notin {"keyDownDelete", "clearHistory"} =>
           IsPrefix(recordingHistory, recordingHistory')]_vars

Range(seq) == {seq[i] : i \in 1..Len(seq)}

\* The snapshots a step may create: copies of the Pose and the Proportions
\* of the state before it, or of the Pose a calibration started from.
CreatedSnapshots ==
    {Snapshot(pose, props) :
         pose \in {pivotOffsets, transition.startPose, jitterLoop.startPose}}

PathParent(key) ==
    IF key \in {"torso", "l_hip", "r_hip"} THEN "waist"
    ELSE IF key \in {"neck", "l_shoulder", "r_shoulder"} THEN "collar"
    ELSE CHOOSE p \in DOMAIN JOINT_CHILD_MAP : JOINT_CHILD_MAP[p] = key

\* The product of the total factors of the joints on the path from the
\* child of `start` down to `key`.
RECURSIVE PathFactor(_, _, _)
PathFactor(start, key, behaviors) ==
    IF key = start THEN 1
    ELSE (behaviors[key].b + behaviors[key].s)
             * PathFactor(start, PathParent(key), behaviors)

\* Behaviours with every joint coupled but r_hip and neck, whose factors
\* cancel; l_hip and l_shoulder have the bend factor 2.
FanOutBehaviors ==
    [k \in JOINT_KEYS |->
        [b |-> IF k \in {"l_hip", "l_shoulder"} THEN 2 ELSE 1,
         s |-> IF k \in {"r_hip", "neck"} THEN -1 ELSE 0,
         l |-> FALSE]]

\* C28: in a propagation the delta added to a joint below the start joint is
\* the start delta times the total factor (bend + stretch) of every joint on
\* the path from the start joint's child down to it; the waist fans out to
\* torso, l_hip and r_hip, the collar to neck, l_shoulder and r_shoulder.
C28_DeltaIsProductOfFactors ==
    /\ [][MoveStep =>
              \E d \in AllDragDeltas :
                  /\ DragResult'[draggingBoneKeyRef] = DragBase[draggingBoneKeyRef] + d
                  /\ \A k \in Descendants(draggingBoneKeyRef) :
                         DragResult'[k] - DragBase[k] =
                             d * PathFactor(draggingBoneKeyRef, k, jointChainBehaviors)]_vars
    /\ [](\A start \in {"waist", "collar"}, d \in ChainDeltas :
              \A k \in Descendants(start) :
                  applyChainReaction(start, d, pivotOffsets, FanOutBehaviors)[k]
                      - pivotOffsets[k] = d * PathFactor(start, k, FanOutBehaviors))

\* C28's case: the left shoulder was dragged while the elbow has the total
\* factor -1 and the hand below it the factor 2: the hand moved by -2 times
\* the shoulder's delta.
C28_Witness ==
    /\ lastOp.op = "interactionMove"
    /\ lastOp.acted
    /\ draggingBoneKeyRef = "l_shoulder"
    /\ jointChainBehaviors["l_elbow"].b + jointChainBehaviors["l_elbow"].s = -1
    /\ jointChainBehaviors["l_hand"].b + jointChainBehaviors["l_hand"].s = 2
    /\ previewPivotOffsets # NullPose
    /\ previewPivotOffsets["l_shoulder"] - pivotOffsets["l_shoulder"] = 5
    /\ previewPivotOffsets["l_elbow"] - pivotOffsets["l_elbow"] = -5
    /\ previewPivotOffsets["l_hand"] - pivotOffsets["l_hand"] = -10

\* C29: when the IK effect solves a pinned foot, the parent rotation it
\* hands to the solver for the hip is the world rotation the Renderer
\* reported for the hip's parent in the joint graph, the waist.
C29_HipSolvedRelativeToWaist ==
    [][lastOp'.op = "ikEffect" =>
           \A call \in ikCall' : call.parentAngle = allJointPositions["waist"]]_vars

\* The Pose a move reads and the Pose it has written.
MoveBase ==
    IF predictiveGhostingEnabled /\ previewPivotOffsets # NullPose
    THEN previewPivotOffsets ELSE pivotOffsets

MoveWritten == IF predictiveGhostingEnabled THEN previewPivotOffsets ELSE pivotOffsets

\* A move of joint `key`, which has the lead flag, leaves the joint where
\* the coupling to its parent puts it: its change is the parent's change
\* times the joint's total factor.
LeadsParent(key) ==
    (MoveStep /\ draggingBoneKeyRef = key /\ jointChainBehaviors[key].l)
        => MoveWritten'[key] - MoveBase[key]
               = (MoveWritten'[PathParent(key)] - MoveBase[PathParent(key)])
                     * (jointChainBehaviors[key].b + jointChainBehaviors[key].s)

\* C30: a drag of a joint that has the lead flag and a parent in the joint
\* graph (the hips under the waist and the shoulders under the collar
\* included) rotates the parent instead: the dragged joint changes only by
\* the coupling propagated from the parent.
C30_LeadDragRotatesParent ==
    [][\A key \in JOINT_KEYS \ {"waist"} : LeadsParent(key)]_vars

\* The poses of the stored keyframes.
KeyframePoses(kfs) == [i \in 1..Len(kfs) |-> kfs[i].pose]

\* A step of a run play() ... tick* ... pause(): play(), a tick, or the
\* pause() that ends playback.
PlaybackStep ==
    \/ lastOp'.op \in {"play", "tick"}
    \/ lastOp'.op = "pause" /\ isAnimating

\* C31: playback never alters the stored animation: over play(), the ticks
\* and pause() every keyframe keeps its pose, also when a keyframe was
\* selected before play().
C31_PlaybackKeepsKeyframes ==
    [][PlaybackStep => KeyframePoses(keyframes') = KeyframePoses(keyframes)]_vars

\* C32: with two keyframes or more the stored animationTime lies in
\* [0, totalDuration), under play, pause, ticks, scrubs, keyframe selection,
\* add keyframe, add tween frame and keyframe-time edits.
C32_TimeWithinDuration ==
    Len(keyframes) >= 2 =>
        (0 <= animationTime /\ animationTime < totalDuration(keyframes))

\* A frame of playback on a timeline of two keyframes or more.
PlaybackFrame ==
    /\ lastOp'.op = "tick"
    /\ isAnimating
    /\ Len(keyframes) >= 2
    /\ totalDuration(keyframes) > 0

\* C33: time spent paused is not replayed.  The first frame after playback
\* has started advances animationTime by 0, and each later frame advances
\* it by the time elapsed since the previous frame (the sum is wrapped into
\* the timeline as every frame wraps it).
C33_FramesAdvanceByElapsed ==
    [][PlaybackFrame =>
           IF ~tickedSincePlay
           THEN animationTime' = TickTime(keyframes, animationTime, 0)
           ELSE \E d \in TickDeltas :
                    animationTime' = TickTime(keyframes, animationTime, d)]_vars

\* The timelines on which playback is inert: none or one of the stored
\* keyframes.
InertTimelines == {<<>>} \cup {<<keyframes[i]>> : i \in 1..Len(keyframes)}

\* C34: the scheduler is never left playing on an inert timeline.  A frame
\* that runs with fewer than two keyframes stops playback and leaves
\* animationTime and the Pose alone; a full reset leaves the scheduler not
\* playing at time 0 with no keyframes and no selected keyframe; and
\* playback only runs over two keyframes or more.
C34_NoPlaybackOnInertTimeline ==
    /\ [](\A kfs \in InertTimelines, d \in TickDeltas :
              LET frame == runAnimationLoop(kfs, TRUE, animationTime, pivotOffsets,
                                            lastTimestampNull, d)
              IN  /\ ~frame.isAnimating
                  /\ frame.animationTime = animationTime
                  /\ frame.pivotOffsets = pivotOffsets)
    /\ [][(lastOp'.op = "tick" /\ Len(keyframes) < 2) =>
              /\ ~isAnimating'
              /\ animationTime' = animationTime
              /\ pivotOffsets' = pivotOffsets]_vars
    /\ [][lastOp'.op = "fullReset" =>
              /\ ~isAnimating'
              /\ animationTime' = 0
              /\ keyframes' = <<>>
              /\ selectedKeyframeIndex' = NoIndex]_vars
    /\ [](isAnimating => Len(keyframes) >= 2)

\* C34's case: a timeline with a selected keyframe was cleared after frames
\* of playback had moved the playhead.
C34_Witness ==
    /\ lastOp.op = "fullReset"
    /\ tickedSincePlay
    /\ keyframes = <<>>
    /\ selectedKeyframeIndex = NoIndex
    /\ ~isAnimating
    /\ animationTime = 0

\* C35: a completed drag is undoable as one step.  After startDrag, moves,
\* the release and the end of the transition that promotes the result, one
\* undo() sets the committed Pose and the Proportions to their values at
\* the start of the drag, with and without ghosting.
C35_DragUndoneInOneStep ==
    [][(/\ lastOp'.op = "undo"
        /\ lastOp'.acted
        /\ dragRun.phase = "released"
        /\ ~transition.running
        /\ ~jitterLoop.running) =>
           /\ pivotOffsets' = dragRun.pose
           /\ props' = dragRun.props]_vars

\* C35's case: a drag with ghosting moved the elbow, was released and
\* promoted, and was undone.
C35_Witness ==
    /\ dragRun.phase = "undone"
    /\ lastOp.op = "undo"
    /\ predictiveGhostingEnabled
    /\ ~jitterLoop.running
    /\ pivotOffsets = dragRun.pose
    /\ Len(redoStack) >= 1
    /\ redoStack[1].pivotOffsets["l_elbow"] # pivotOffsets["l_elbow"]

\* The Pose that a release leaves as the result of the drag: the shadow
\* Pose that the release promotes with ghosting, the committed Pose
\* without.
ReleasedPose ==
    IF predictiveGhostingEnabled /\ previewPivotOffsets # NullPose
    THEN previewPivotOffsets ELSE pivotOffsets

\* C36: the END_DRAG snapshot that a release appends to the recording log
\* holds the Pose that results from the drag, with and without ghosting.
C36_EndDragSnapshotHoldsResult ==
    [][(/\ lastOp'.op = "interactionEnd"
        /\ draggingBoneKeyRef # "none"
        /\ recordingHistory' # <<>>
        /\ recordingHistory'[Len(recordingHistory')].label = "END_DRAG") =>
           recordingHistory'[Len(recordingHistory')].pivotOffsets = ReleasedPose]_vars

\* C37: once a pose transition has set isTransitioning back to false it
\* writes the committed Pose no more: a frame callback that runs while
\* isTransitioning is false leaves the committed Pose as it is, in every
\* motion style.
C37_NoWriteAfterTransition ==
    [][(lastOp'.op \in {"transitionFrame", "jitterFrame"} /\ ~isTransitioning) =>
           pivotOffsets' = pivotOffsets]_vars

\* C38: the IK pass quiesces.  When from some point on there is no user
\* input and no report of the Renderer, so that every step is a run of the
\* IK effect, the effect is eventually never scheduled again.
C38_IKEffectQuiesces ==
    <>[][lastOp'.op = "ikEffect"]_vars => <>[](~ikPending)

\* The pass does quiesce when the solver finds no solution: the run that
\* applies nothing writes no shadow Pose.
IKEffectQuiescesUnsolved ==
    (<>[][lastOp'.op = "ikEffect"]_vars /\ <>[](ikSolution = NoIkResult))
        => <>[](~ikPending)

=============================================================================
